---------------------------- MODULE Spec2Model ----------------------------
(***************************************************************************)
(* A model of glib's object layer (src/src/object.rs and                  *)
(* src/src/subclass/object.rs): owned and weak references to an instance, *)
(* construction, and the property system with change notification.        *)
(*                                                                         *)
(* The Rust code is a binding: every operation ends in a call into the    *)
(* native GObject runtime (gobject_sys::...).  The native calls are       *)
(* modelled by the operators whose names start with g_; what the Rust     *)
(* code adds around them (checks, ownership transfer, error results) is   *)
(* modelled by the operators that carry the Rust names.                   *)
(***************************************************************************)
EXTENDS Integers, Sequences, FiniteSets, TLC

(***************************************************************************)
(* Bounds of the model.                                                    *)
(***************************************************************************)
NumThreads == 2
MaxClones == 2
MaxRefs == 3
MaxWeak == 2

Threads == 1..NumThreads
WeakIds == 1..MaxWeak

VARIABLES
    \* ---- the instance whose lifetime is followed (SpecRef) ----
    ref_count,   \* GObject.ref_count of the instance
    finalized,   \* number of destruction events of the instance so far
    owned,       \* owned[t]: ObjectRef handles thread t holds
    weak,        \* weak[w]: the GWeakRef location of weak handle w
    pc,          \* pc[t]: where thread t is inside WeakRef::upgrade
    ptr,         \* ptr[t]: the pointer g_weak_ref_get returned to thread t
    upg,         \* upg[t]: the outcome of thread t's last upgrade
    nclones,     \* number of ObjectRef::clone calls so far
    \* ---- the instance whose properties are used (SpecProp) ----
    inst,        \* the type of the instance Object::new returned, or "none"
    fields,      \* the fields of its implementation struct
    handlers,    \* the handlers connected to its notify signal, in order
    next_id,     \* the native runtime's next signal handler id
    events,      \* what the last operation allocated, called and notified
    last,        \* the last operation: its arguments and its result
    \* ---- the weak handles that are SendWeakRefs (SpecWeak) ----
    bound,       \* bound[w]: the thread id in SendWeakRef w: -1 for a plain
                 \* WeakRef, 0 for None, t for Some(t)
    cloning,     \* cloning[t]: the location of the clone thread t is making, or 0
    nops,        \* the number of operations on weak handles so far
    floating,    \* whether the instance's reference is floating (SpecFloat)
    wrapper,     \* the static type of the wrapper thread 1 holds (SpecCast)
    binding      \* the binding builder or binding, and the two properties
                 \* it binds (SpecBind)

refVars == <<ref_count, finalized, owned, weak, pc, ptr, upg, nclones>>

propVars == <<inst, fields, handlers, next_id, events, last>>

extVars == <<bound, cloning, nops, floating, wrapper, binding>>

vars == <<ref_count, finalized, owned, weak, pc, ptr, upg, nclones,
          inst, fields, handlers, next_id, events, last, bound, cloning, nops,
          floating, wrapper, binding>>

(***************************************************************************)
(* The native runtime's reference counting and weak locations.            *)
(***************************************************************************)

\* g_object_ref: one atomic increment.
g_object_ref(rc) == rc + 1

\* g_object_unref: one atomic decrement; the decrement that removes the last
\* reference first clears every weak location that points to the instance and
\* then finalizes it.  An unref of an already finalized instance is undefined:
\* it may go unnoticed or finalize a second time.
g_object_unref(rc, fin, wk) ==
    IF rc > 1
    THEN {[rc |-> rc - 1, fin |-> fin, wk |-> wk]}
    ELSE IF rc = 1
    THEN {[rc |-> 0, fin |-> fin + 1,
           wk |-> [w \in DOMAIN wk |-> IF wk[w] = "obj" THEN "null" ELSE wk[w]]]}
    ELSE {[rc |-> 0, fin |-> f, wk |-> wk] : f \in {fin, IF fin < 2 THEN fin + 1 ELSE fin}}

\* g_weak_ref_init(location, object)
g_weak_ref_init(object) == IF object = "obj" THEN "obj" ELSE "null"

\* g_weak_ref_get: under the weak location's lock, read the location and, when
\* it still points to the instance, take a new reference.
g_weak_ref_get(loc, rc) ==
    IF loc = "obj" THEN [p |-> "obj", rc |-> g_object_ref(rc)]
    ELSE [p |-> "null", rc |-> rc]

(***************************************************************************)
(* ObjectRef: Clone and Drop.                                              *)
(***************************************************************************)

\* A clone that copies the pointer without taking a reference.
ObjectRef_clone_noref(t) ==
    /\ owned[t] >= 1
    /\ nclones < MaxClones
    /\ owned' = [owned EXCEPT ![t] = @ + 1]
    /\ nclones' = nclones + 1
    /\ UNCHANGED <<ref_count, finalized, weak, pc, ptr, upg>>
    /\ UNCHANGED propVars
    /\ UNCHANGED extVars

ObjectRef_clone(t) ==
    /\ owned[t] >= 1
    /\ nclones < MaxClones
    /\ ref_count' = g_object_ref(ref_count)
    /\ owned' = [owned EXCEPT ![t] = @ + 1]
    /\ nclones' = nclones + 1
    /\ UNCHANGED <<finalized, weak, pc, ptr, upg>>
    /\ UNCHANGED propVars
    /\ UNCHANGED extVars

ObjectRef_drop(t) ==
    /\ owned[t] >= 1
    /\ \E r \in g_object_unref(ref_count, finalized, weak) :
          /\ ref_count' = r.rc
          /\ finalized' = r.fin
          /\ weak' = r.wk
    /\ owned' = [owned EXCEPT ![t] = @ - 1]
    /\ UNCHANGED <<pc, ptr, upg, nclones>>
    /\ UNCHANGED propVars
    /\ UNCHANGED extVars

\* An owned handle is moved to another thread (ObjectRef is a plain pointer;
\* the wrappers are Send where the wrapped type allows it).
SendRef(t, u) ==
    /\ t # u
    /\ owned[t] >= 1
    /\ owned' = [owned EXCEPT ![t] = @ - 1, ![u] = @ + 1]
    /\ UNCHANGED <<ref_count, finalized, weak, pc, ptr, upg, nclones>>
    /\ UNCHANGED propVars
    /\ UNCHANGED extVars

(***************************************************************************)
(* WeakRef.                                                                *)
(***************************************************************************)

downgrade(t, w) ==
    /\ owned[t] >= 1
    /\ weak[w] = "unset"
    /\ weak' = [weak EXCEPT ![w] = g_weak_ref_init("obj")]
    /\ UNCHANGED <<ref_count, finalized, owned, pc, ptr, upg, nclones>>
    /\ UNCHANGED propVars
    /\ UNCHANGED extVars

\* An upgrade that reads the weak location itself and takes no reference.
WeakRef_upgrade_get_borrow(t, w) ==
    /\ pc[t] = "idle"
    /\ weak[w] # "unset"
    /\ ptr' = [ptr EXCEPT ![t] = IF weak[w] = "obj" THEN "obj" ELSE "null"]
    /\ pc' = [pc EXCEPT ![t] = "got"]
    /\ upg' = [upg EXCEPT ![t] = [res |-> "pending", late |-> finalized >= 1]]
    /\ UNCHANGED <<ref_count, finalized, owned, weak, nclones>>
    /\ UNCHANGED propVars
    /\ UNCHANGED extVars

\* WeakRef::upgrade, first half: the call of g_weak_ref_get.
WeakRef_upgrade_get(t, w) ==
    /\ pc[t] = "idle"
    /\ weak[w] # "unset"
    /\ ref_count < MaxRefs
    /\ LET g == g_weak_ref_get(weak[w], ref_count) IN
          /\ ptr' = [ptr EXCEPT ![t] = g.p]
          /\ ref_count' = g.rc
    /\ pc' = [pc EXCEPT ![t] = "got"]
    /\ upg' = [upg EXCEPT ![t] = [res |-> "pending", late |-> finalized >= 1]]
    /\ UNCHANGED <<finalized, owned, weak, nclones>>
    /\ UNCHANGED propVars
    /\ UNCHANGED extVars

\* FromGlibPtrFull for ObjectRef: takes over the caller's reference; asserts
\* that the pointer is not null and that the count it reads is not zero.
from_glib_full_ok(p, rc) == p # "null" /\ rc # 0

\* WeakRef::upgrade, second half: None for a null pointer, else the pointer
\* wrapped by from_glib_full.
WeakRef_upgrade_ret(t) ==
    /\ pc[t] = "got"
    /\ IF ptr[t] = "null"
       THEN /\ upg' = [upg EXCEPT ![t].res = "None"]
            /\ pc' = [pc EXCEPT ![t] = "idle"]
            /\ owned' = owned
       ELSE IF from_glib_full_ok(ptr[t], ref_count)
       THEN /\ upg' = [upg EXCEPT ![t].res = "Some"]
            /\ pc' = [pc EXCEPT ![t] = "idle"]
            /\ owned' = [owned EXCEPT ![t] = @ + 1]
       ELSE /\ upg' = [upg EXCEPT ![t].res = "panic"]
            /\ pc' = [pc EXCEPT ![t] = "panic"]
            /\ owned' = owned
    /\ ptr' = [ptr EXCEPT ![t] = "null"]
    /\ UNCHANGED <<ref_count, finalized, weak, nclones>>
    /\ UNCHANGED propVars
    /\ UNCHANGED extVars

\* Drop for WeakRef: g_weak_ref_clear.
WeakRef_drop(w) ==
    /\ weak[w] # "unset"
    /\ weak' = [weak EXCEPT ![w] = "unset"]
    /\ UNCHANGED <<ref_count, finalized, owned, pc, ptr, upg, nclones>>
    /\ UNCHANGED propVars
    /\ UNCHANGED extVars

(***************************************************************************)
(* The type registry.  Object, InitiallyUnowned and the fundamental value *)
(* types are the native runtime's; SimpleObject and DummyInterface are    *)
(* registered by subclass/object.rs; PropObject (a subclass of            *)
(* SimpleObject) and AbstractObject are further registered types, which   *)
(* carry the property flags and the type flags SimpleObject does not use. *)
(***************************************************************************)
ObjectTypes == {"Object", "SimpleObject", "PropObject", "InitiallyUnowned", "AbstractObject"}

ValueTypes == {"String", "Int", "Bool"}

Types == ObjectTypes \cup ValueTypes \cup {"DummyInterface", "Invalid"}

\* The parent of a class type ("none" at a root).
type_parent(t) ==
    CASE t = "SimpleObject" -> "Object"
      [] t = "PropObject" -> "SimpleObject"
      [] t = "InitiallyUnowned" -> "Object"
      [] t = "AbstractObject" -> "Object"
      [] OTHER -> "none"

\* The interfaces a type adds (SimpleObject::type_init).
type_interfaces(t) == IF t = "SimpleObject" THEN {"DummyInterface"} ELSE {}

\* The prerequisites of an interface (DummyInterface: Prerequisites = Object).
type_prerequisites(t) == IF t = "DummyInterface" THEN {"Object"} ELSE {}

RECURSIVE type_ancestors(_)
type_ancestors(t) ==
    {t} \cup (IF type_parent(t) = "none" THEN {} ELSE type_ancestors(type_parent(t)))

\* Type::is_a (g_type_is_a): the class chain, the interfaces of every class
\* on it, and, for an interface, its prerequisites.
is_a(t, target) ==
    LET conforms(chain) ==
            \/ target \in chain
            \/ \E a \in chain : target \in type_interfaces(a)
            \/ target \in type_prerequisites(t)
    IN  t # "Invalid" /\ conforms(type_ancestors(t))

\* g_type_class_ref: the class of a classed type, NULL for any other type.
g_type_class_ref(t) == IF t \in ObjectTypes THEN t ELSE "null"

\* g_type_test_flags(type, G_TYPE_FLAG_INSTANTIATABLE)
is_instantiatable(t) == t \in ObjectTypes

\* g_type_test_flags(type, G_TYPE_FLAG_ABSTRACT)
is_abstract(t) == t = "AbstractObject"

(***************************************************************************)
(* Values: a type tag and the data.  The data of a GValue is a union; s   *)
(* is its pointer member (a string, or the dynamic type of the object it  *)
(* points to, Null for a null pointer) and n its integer member (an int,  *)
(* or a gboolean as 0 or 1).  The members a type does not use are zero.   *)
(***************************************************************************)
Null == "<null>"

Str(s) == [tag |-> "String", s |-> s, n |-> 0]
Int32(i) == [tag |-> "Int", s |-> Null, n |-> i]
Boolean(b) == [tag |-> "Bool", s |-> Null, n |-> IF b THEN 1 ELSE 0]
Obj(tag, dyn) == [tag |-> tag, s |-> dyn, n |-> 0]

NoValue == [tag |-> "Invalid", s |-> Null, n |-> 0]

\* Value::type_
value_type(value) == value.tag

\* property_value.0.g_type = ...: the tag is overwritten, the data is kept.
retag(value, t) == [value EXCEPT !.tag = t]

\* g_type_check_value_holds(value, type)
g_type_check_value_holds(value, t) == is_a(value.tag, t)

(***************************************************************************)
(* Property descriptors.                                                   *)
(***************************************************************************)
PSpec(name, vt, flags, owner, minimum, maximum) ==
    [name |-> name, value_type |-> vt, flags |-> flags, owner |-> owner,
     minimum |-> minimum, maximum |-> maximum]

\* No descriptor (a lookup that found nothing).
NoPSpec == PSpec("", "Invalid", {}, "none", 0, 0)

\* The properties a class installs (install_properties in class_init):
\* SimpleObject's PROPERTIES, and for PropObject a construct-only int, a
\* strict and a lax int with range 0..1, and a SimpleObject-typed property.
installed_properties(t) ==
    CASE t = "SimpleObject" ->
            << PSpec("name", "String", {"READABLE", "WRITABLE"}, t, 0, 0),
               PSpec("constructed", "Bool", {"READABLE"}, t, 0, 1) >>
      [] t = "PropObject" ->
            << PSpec("id", "Int", {"WRITABLE", "CONSTRUCT_ONLY"}, t, 0, 1),
               PSpec("level", "Int", {"READABLE", "WRITABLE"}, t, 0, 1),
               PSpec("lax", "Int", {"READABLE", "WRITABLE", "LAX_VALIDATION"}, t, 0, 1),
               PSpec("child", "SimpleObject", {"READABLE", "WRITABLE"}, t, 0, 0) >>
      [] OTHER -> << >>

\* ObjectClass::list_properties: the properties of the class and its ancestors.
RECURSIVE list_properties(_)
list_properties(t) ==
    installed_properties(t)
        \o (IF type_parent(t) = "none" THEN << >> ELSE list_properties(type_parent(t)))

\* pspecs.iter().find(|p| p.get_name() == name)
RECURSIVE find_pspec(_, _)
find_pspec(pspecs, name) ==
    IF pspecs = << >> THEN NoPSpec
    ELSE IF Head(pspecs).name = name THEN Head(pspecs)
    ELSE find_pspec(Tail(pspecs), name)

\* ObjectClass::find_property (g_object_class_find_property)
find_property(t, name) == find_pspec(list_properties(t), name)

\* The default value of a descriptor: zero data of its type.
default_value(pspec) == [tag |-> pspec.value_type, s |-> Null, n |-> 0]

\* g_param_value_validate: brings the value into the descriptor's range and
\* says whether it had to change it.  An int is clamped; an object that does
\* not conform to the descriptor's type is replaced by none.
g_param_value_validate(pspec, value) ==
    LET result(fixed) == [changed |-> fixed # value, value |-> fixed] IN
    result(CASE pspec.value_type = "Int" ->
                    IF value.n < pspec.minimum THEN [value EXCEPT !.n = pspec.minimum]
                    ELSE IF value.n > pspec.maximum THEN [value EXCEPT !.n = pspec.maximum]
                    ELSE value
             [] pspec.value_type \in ObjectTypes ->
                    IF value.s # Null /\ ~is_a(value.s, pspec.value_type)
                    THEN [value EXCEPT !.s = Null]
                    ELSE value
             [] OTHER -> value)

Ok(value) == [err |-> "ok", value |-> value]
Err(kind) == [err |-> kind, value |-> NoValue]

\* validate_property_type, the type of the value: Ok with the value (its tag
\* overwritten where the code does that), or the error.
validate_value_type(pspec, property_value) ==
    LET typed(valid_type) ==
            IF ~valid_type /\ is_a(value_type(property_value), "Object")
            THEN IF property_value.s # Null
                 THEN IF is_a(property_value.s, pspec.value_type)
                      THEN Ok(retag(property_value, pspec.value_type))
                      ELSE Err("TypeMismatch")
                 ELSE Ok(retag(property_value, pspec.value_type))
            ELSE IF ~valid_type THEN Err("TypeMismatch")
            ELSE Ok(property_value)
    IN  typed(g_type_check_value_holds(property_value, pspec.value_type))

\* The range validation that accepts every change the descriptor makes.
validate_value_range_lax(pspec, typed) ==
    IF typed.err # "ok" THEN typed
    ELSE Ok(g_param_value_validate(pspec, typed.value).value)

\* validate_property_type, the range of the value, for the outcome typed of
\* the type test: a value the descriptor had to change is an error unless the
\* descriptor has LAX_VALIDATION.
validate_value_range(pspec, typed) ==
    LET ranged(val, change_allowed) ==
            IF val.changed /\ ~change_allowed
            THEN Err("ValidationFailed")
            ELSE Ok(val.value)
    IN  IF typed.err # "ok" THEN typed
        ELSE ranged(g_param_value_validate(pspec, typed.value),
                    "LAX_VALIDATION" \in pspec.flags)

\* validate_property_type without the test of the descriptor's flags.
validate_property_type_noflags(type_, allow_construct_only, pspec, property_value) ==
    validate_value_range(pspec, validate_value_type(pspec, property_value))

\* validate_property_type: Ok with the value to hand to the native setter
\* (re-tagged, brought into range), or the error.
validate_property_type(type_, allow_construct_only, pspec, property_value) ==
    IF \/ "WRITABLE" \notin pspec.flags
       \/ (~allow_construct_only /\ "CONSTRUCT_ONLY" \in pspec.flags)
    THEN Err("NotWritable")
    ELSE validate_value_range(pspec, validate_value_type(pspec, property_value))

(***************************************************************************)
(* The instance's implementation struct and its virtual methods.          *)
(***************************************************************************)
Payload(s, n) == [s |-> s, n |-> n]

\* ObjectSubclass::new: the fields of a fresh instance, one per property.
new_fields ==
    [name |-> Payload(Null, 0), constructed |-> Payload(Null, 0),
     id |-> Payload(Null, 0), level |-> Payload(Null, 0),
     lax |-> Payload(Null, 0), child |-> Payload(Null, 0)]

Event(k, name, h) == [k |-> k, name |-> name, h |-> h]

\* The state a native call works on: the instance pointer, its fields,
\* whether a hook panicked, and what was allocated, called and notified.
Native(p, flds, panicked, evs) ==
    [ptr |-> p, fields |-> flds, panic |-> panicked, events |-> evs]

RECURSIVE pspec_index(_, _)
pspec_index(pspecs, name) ==
    IF Head(pspecs).name = name THEN 1 ELSE 1 + pspec_index(Tail(pspecs), name)

\* The id the native runtime gives an installed property: its place in the
\* array handed to g_object_class_install_properties, whose slot 0 is unused.
property_id(pspec) == pspec_index(installed_properties(pspec.owner), pspec.name)

\* PROPERTIES[id] of the implementing class, for the zero-based id the
\* trampolines pass on.
property_at(owner, id) == installed_properties(owner)[id + 1]

RECURSIVE emit(_, _, _, _, _)

\* ObjectImpl::set_property of the class that owns the property.
\* SimpleObject stores "name", emits "name-changed" and unwraps the result,
\* and has no other settable property; PropObject stores each of its
\* properties.
impl_set_property(owner, type_, flds, hs, id, value) ==
    LET emitted(e) ==
            [fields |-> e.fields, panic |-> e.res.err # "ok",
             events |-> <<Event("emit", "name-changed", 0)>> \o e.events]
        store(prop) ==
            IF owner = "SimpleObject" /\ prop.name # "name"
            THEN [fields |-> flds, panic |-> TRUE, events |-> << >>]
            ELSE IF owner = "SimpleObject"
            THEN emitted(emit(type_, [flds EXCEPT ![prop.name] = Payload(value.s, value.n)],
                              hs, <<"name-changed">>, <<Str(value.s)>>))
            ELSE [fields |-> [flds EXCEPT ![prop.name] = Payload(value.s, value.n)],
                  panic |-> FALSE, events |-> << >>]
    IN  store(property_at(owner, id))

\* ObjectImpl::get_property of the class that owns the property.
impl_get_property(owner, flds, id) ==
    LET load(prop) ==
            [tag |-> prop.value_type, s |-> flds[prop.name].s, n |-> flds[prop.name].n]
    IN  load(property_at(owner, id))

\* The set_property trampoline: the native id, less one, goes to the impl.
set_property_trampoline(type_, flds, hs, pspec, value) ==
    impl_set_property(pspec.owner, type_, flds, hs, property_id(pspec) - 1, value)

\* The get_property trampoline: the impl's value replaces the caller's.
get_property_trampoline(flds, pspec) ==
    impl_get_property(pspec.owner, flds, property_id(pspec) - 1)

(***************************************************************************)
(* Signal names and the notify signal.                                     *)
(***************************************************************************)
\* A signal name is the sequence of its parts: format!("notify::{}", name)
\* is <<"notify", "::", name>>.

\* g_signal_parse_name: the signal and the detail ("" when there is none).
g_signal_parse_name(signal_name) ==
    IF Len(signal_name) = 1
    THEN [found |-> TRUE, signal |-> signal_name[1], detail |-> ""]
    ELSE IF Len(signal_name) = 3 /\ signal_name[2] = "::" /\ signal_name[3] # ""
    THEN [found |-> TRUE, signal |-> signal_name[1], detail |-> signal_name[3]]
    ELSE [found |-> FALSE, signal |-> "", detail |-> ""]

\* The notify emission for one changed property: every handler connected to
\* "notify" without detail, or with the property's name as detail, and not
\* blocked, is called with the property's descriptor, in connection order.
RECURSIVE g_object_notify_dispatch(_, _)
g_object_notify_dispatch(hs, pspec) ==
    IF hs = << >> THEN << >>
    ELSE (IF /\ Head(hs).signal = "notify"
             /\ Head(hs).connected
             /\ Head(hs).blocked = 0
             /\ (Head(hs).detail = "" \/ Head(hs).detail = pspec.name)
          THEN <<Event("notify", pspec.name, Head(hs).id)>>
          ELSE << >>)
         \o g_object_notify_dispatch(Tail(hs), pspec)

(***************************************************************************)
(* The native property calls.                                              *)
(***************************************************************************)
\* g_object_set_property (and the property setting of g_object_newv): the
\* native runtime repeats the flag, type and range checks, warns and does
\* nothing when one fails, else calls the class's setter and notifies.
g_object_set_property(type_, st, hs, name, value, in_construction) ==
    LET stored(pspec, r) ==
            Native(st.ptr, r.fields, st.panic \/ r.panic,
                   st.events \o <<Event("set", pspec.name, 0)>> \o r.events
                             \o g_object_notify_dispatch(hs, pspec))
        validated(pspec, val) ==
            IF val.changed /\ "LAX_VALIDATION" \notin pspec.flags
            THEN st
            ELSE stored(pspec, set_property_trampoline(type_, st.fields, hs, pspec, val.value))
        found(pspec) ==
            IF \/ pspec.name = ""
               \/ "WRITABLE" \notin pspec.flags
               \/ ("CONSTRUCT_ONLY" \in pspec.flags /\ ~in_construction)
               \/ ~is_a(value.tag, pspec.value_type)
            THEN st
            ELSE validated(pspec, g_param_value_validate(pspec, value))
    IN  found(find_property(type_, name))

\* g_object_get_property into a value initialised to the descriptor's type.
g_object_get_property(type_, flds, name, value) ==
    LET found(pspec) ==
            IF pspec.name = "" \/ "READABLE" \notin pspec.flags
            THEN [value |-> value, events |-> << >>]
            ELSE [value |-> get_property_trampoline(flds, pspec),
                  events |-> <<Event("get", pspec.name, 0)>>]
    IN  found(find_property(type_, name))

RECURSIVE set_each(_, _, _, _, _)
set_each(type_, st, hs, params, in_construction) ==
    IF params = << >> THEN st
    ELSE set_each(type_,
                  g_object_set_property(type_, st, hs, Head(params).name,
                                        Head(params).value, in_construction),
                  hs, Tail(params), in_construction)

Pair(n, v) == [name |-> n, value |-> v]

\* The value supplied for a property, or its default when none is.
RECURSIVE supplied_or_default(_, _)
supplied_or_default(pspec, params) ==
    IF params = << >> THEN default_value(pspec)
    ELSE IF Head(params).name = pspec.name THEN Head(params).value
    ELSE supplied_or_default(pspec, Tail(params))

\* The construct properties among pspecs, each with its value.
RECURSIVE construct_params(_, _)
construct_params(pspecs, params) ==
    IF pspecs = << >> THEN << >>
    ELSE (IF "CONSTRUCT_ONLY" \in Head(pspecs).flags
          THEN <<Pair(Head(pspecs).name, supplied_or_default(Head(pspecs), params))>>
          ELSE << >>)
         \o construct_params(Tail(pspecs), params)

\* The supplied parameters that are not construct properties.
RECURSIVE other_params(_, _)
other_params(pspecs, params) ==
    IF params = << >> THEN << >>
    ELSE (IF "CONSTRUCT_ONLY" \notin find_pspec(pspecs, Head(params).name).flags
          THEN <<Head(params)>>
          ELSE << >>)
         \o other_params(pspecs, Tail(params))

\* ObjectImpl::parent_constructed: the constructed of the parent class
\* (GObject's, which does nothing) is called.
parent_constructed(st) ==
    [st EXCEPT !.events = @ \o <<Event("parent_constructed", "", 0)>>]

\* A class whose constructed is never called.
constructed_skipped(type_, st) == st

\* The constructed trampoline and SimpleObject::constructed: the parent's
\* constructed is chained first, then the flag is set.
constructed(type_, st) ==
    IF is_a(type_, "SimpleObject")
    THEN [parent_constructed(st) EXCEPT
             !.fields.constructed = Payload(Null, 1),
             !.events = @ \o <<Event("constructed", "", 0)>>]
    ELSE st

\* g_object_newv: NULL for a type that is no object type, a fatal error for
\* one that cannot be instantiated; else the instance is allocated, its
\* construct properties are set, constructed() runs, and the other supplied
\* properties are set.
g_object_newv(type_, params) ==
    IF ~is_a(type_, "Object")
    THEN Native("null", new_fields, FALSE, << >>)
    ELSE IF ~is_instantiatable(type_) \/ is_abstract(type_)
    THEN Native("null", new_fields, TRUE, << >>)
    ELSE set_each(type_,
                  constructed(type_,
                      set_each(type_,
                               Native("obj", new_fields, FALSE,
                                      <<Event("alloc", type_, 0)>>),
                               << >>,
                               construct_params(list_properties(type_), params),
                               TRUE)),
                  << >>,
                  other_params(list_properties(type_), params),
                  TRUE)

(***************************************************************************)
(* Object::new.                                                            *)
(***************************************************************************)
\* IsClassFor::from_type for ObjectClass: the class, or "null" for None.
from_type(type_) ==
    IF ~is_a(type_, "Object") THEN "null" ELSE g_type_class_ref(type_)

\* The outcome of a construction: err is "ok", the error, or "abort" when the
\* process did not survive the call.
NewFailed(kind) == [err |-> kind, fields |-> new_fields, events |-> << >>]

\* The closure Object::new maps over the supplied pairs: the descriptor is
\* looked up among pspecs and the value validated against it.
validate_param(type_, pspecs, name, value) ==
    LET found(pspec) ==
            IF pspec.name = "" THEN Err("NotFound")
            ELSE validate_property_type(type_, TRUE, pspec, value)
    IN  found(find_pspec(pspecs, name))

\* A validation of the supplied properties that looks at the first one only.
validate_params_first_only(type_, pspecs, properties) ==
    LET first(r) ==
            IF r.err # "ok" THEN [err |-> r.err, params |-> << >>]
            ELSE [err |-> "ok",
                  params |-> <<Pair(Head(properties).name, r.value)>> \o Tail(properties)]
    IN  IF properties = << >> THEN [err |-> "ok", params |-> << >>]
        ELSE first(validate_param(type_, pspecs, Head(properties).name,
                                  Head(properties).value))

\* properties.iter().map(...).collect::<Result<_, _>>(): every pair is looked
\* up and validated in order; the first failure is the result.
RECURSIVE validate_params(_, _, _)
validate_params(type_, pspecs, properties) ==
    LET collect(r, rest) ==
            IF r.err # "ok" THEN [err |-> r.err, params |-> << >>]
            ELSE IF rest.err # "ok" THEN rest
            ELSE [err |-> "ok",
                  params |-> <<Pair(Head(properties).name, r.value)>> \o rest.params]
    IN  IF properties = << >> THEN [err |-> "ok", params |-> << >>]
        ELSE collect(validate_param(type_, pspecs, Head(properties).name,
                                    Head(properties).value),
                     validate_params(type_, pspecs, Tail(properties)))

\* The native allocation and what Object::new_internal makes of its result.
new_internal_alloc(type_, params) ==
    LET returned(n) ==
            IF n.panic THEN [err |-> "abort", fields |-> n.fields, events |-> n.events]
            ELSE IF n.ptr = "null" THEN NewFailed("NullInstance")
            ELSE [err |-> "ok", fields |-> n.fields, events |-> n.events]
    IN  returned(g_object_newv(type_, params))

\* Object::new_internal without the test for an abstract type.
new_internal_noabstract(type_, params) ==
    IF ~is_a(type_, "Object") THEN NewFailed("NotGObject")
    ELSE IF ~is_instantiatable(type_) THEN NewFailed("NotInstantiatable")
    ELSE new_internal_alloc(type_, params)

\* Object::new_internal
new_internal(type_, params) ==
    IF ~is_a(type_, "Object") THEN NewFailed("NotGObject")
    ELSE IF ~is_instantiatable(type_) THEN NewFailed("NotInstantiatable")
    ELSE IF is_abstract(type_) THEN NewFailed("Abstract")
    ELSE new_internal_alloc(type_, params)

\* Object::new
Object_new(type_, properties) ==
    LET validated(v) ==
            IF v.err # "ok" THEN NewFailed(v.err)
            ELSE new_internal(type_, v.params)
    IN  IF from_type(type_) = "null" THEN NewFailed("NoClass")
        ELSE validated(validate_params(type_, list_properties(type_), properties))

\* Object::new_generic: as Object::new, on values instead of ToValue.
Object_new_generic(type_, properties) ==
    LET validated(v) ==
            IF v.err # "ok" THEN NewFailed(v.err)
            ELSE new_internal(type_, v.params)
    IN  IF from_type(type_) = "null" THEN NewFailed("NoClass")
        ELSE validated(validate_params(type_, list_properties(type_), properties))

(***************************************************************************)
(* ObjectExt: properties and notification.                                 *)
(***************************************************************************)
\* ObjectExt::set_property
set_property(type_, flds, hs, property_name, value) ==
    LET returned(st) ==
            [res |-> IF st.panic THEN Err("abort") ELSE Ok(NoValue), st |-> st]
        validated(v) ==
            IF v.err # "ok"
            THEN [res |-> Err(v.err), st |-> Native("obj", flds, FALSE, << >>)]
            ELSE returned(g_object_set_property(type_, Native("obj", flds, FALSE, << >>),
                                                hs, property_name, v.value, FALSE))
        found(pspec) ==
            IF pspec.name = ""
            THEN [res |-> Err("NotFound"), st |-> Native("obj", flds, FALSE, << >>)]
            ELSE validated(validate_property_type(type_, FALSE, pspec, value))
    IN  found(find_property(type_, property_name))

\* Value::from_type: a value of the type, holding nothing.
from_type_value(t) == [tag |-> t, s |-> Null, n |-> 0]

\* The native read of ObjectExt::get_property and the test of its result.
get_property_value(type_, flds, property_name, pspec) ==
    LET returned(g) ==
            IF value_type(g.value) = "Invalid"
            THEN [res |-> Err("GetFailed"), events |-> g.events]
            ELSE [res |-> Ok(g.value), events |-> g.events]
    IN  returned(g_object_get_property(type_, flds, property_name,
                                       from_type_value(pspec.value_type)))

\* ObjectExt::get_property without the test of READABLE.
get_property_noreadable(type_, flds, property_name) ==
    LET found(pspec) ==
            IF pspec.name = "" THEN [res |-> Err("NotFound"), events |-> << >>]
            ELSE get_property_value(type_, flds, property_name, pspec)
    IN  found(find_property(type_, property_name))

\* ObjectExt::get_property
get_property(type_, flds, property_name) ==
    LET found(pspec) ==
            IF pspec.name = "" THEN [res |-> Err("NotFound"), events |-> << >>]
            ELSE IF "READABLE" \notin pspec.flags
            THEN [res |-> Err("NotReadable"), events |-> << >>]
            ELSE get_property_value(type_, flds, property_name, pspec)
    IN  found(find_property(type_, property_name))

\* signal::connect_raw: g_signal_connect_data parses the name and gives the
\* handler, with the closure it calls, the next id.
connect_raw(hs, id, signal_name, closure) ==
    Append(hs, [id |-> id, signal |-> g_signal_parse_name(signal_name).signal,
                detail |-> g_signal_parse_name(signal_name).detail,
                after |-> FALSE, blocked |-> 0, connected |-> TRUE, closure |-> closure,
                callback |-> [ret |-> NoValue, stop |-> FALSE], return_type |-> "Unit"])

\* A connect_notify that drops the property name.
connect_notify_unsafe_nodetail(hs, id, name, f) ==
    connect_raw(hs, id, <<"notify">>, f)

\* ObjectExt::connect_notify_unsafe; name is << >> for None, <<n>> for Some(n).
connect_notify_unsafe(hs, id, name, f) ==
    connect_raw(hs, id,
                IF name = << >> THEN <<"notify">> ELSE <<"notify", "::", name[1]>>,
                f)

\* ObjectExt::notify: g_object_notify looks the property up and emits notify.
notify(type_, hs, property_name) ==
    LET found(pspec) ==
            IF pspec.name = "" THEN << >> ELSE g_object_notify_dispatch(hs, pspec)
    IN  found(find_property(type_, property_name))

(***************************************************************************)
(* Signals: descriptors, the signals the classes add, and the validation  *)
(* of the arguments of an emission.                                        *)
(***************************************************************************)
Signal(name, flags, arg_types, ret_type, class_handler, accumulator) ==
    [name |-> name, flags |-> flags, arg_types |-> arg_types, ret_type |-> ret_type,
     class_handler |-> class_handler, accumulator |-> accumulator]

\* No signal (a lookup that found nothing; signal id 0).
NoSignal == Signal("", {}, << >>, "Unit", "none", "none")

\* ObjectClassSubclassExt::add_signal
add_signal(name, flags, arg_types, ret_type) ==
    Signal(name, flags, arg_types, ret_type, "none", "none")

\* ObjectClassSubclassExt::add_signal_with_class_handler
add_signal_with_class_handler(name, flags, arg_types, ret_type, class_handler) ==
    Signal(name, flags, arg_types, ret_type, class_handler, "none")

\* An add_signal_with_accumulator that does not hand the accumulator on.
add_signal_without_accumulator(name, flags, arg_types, ret_type, accumulator) ==
    Signal(name, flags, arg_types, ret_type, "none", "none")

\* ObjectClassSubclassExt::add_signal_with_accumulator
add_signal_with_accumulator(name, flags, arg_types, ret_type, accumulator) ==
    Signal(name, flags, arg_types, ret_type, "none", accumulator)

\* ObjectClassSubclassExt::add_signal_with_class_handler_and_accumulator
add_signal_with_class_handler_and_accumulator(name, flags, arg_types, ret_type, class_handler, accumulator) ==
    Signal(name, flags, arg_types, ret_type, class_handler, accumulator)

\* The signals a class adds in class_init: SimpleObject's "name-changed" and
\* "change-name"; for PropObject "handled" and "claimed", whose accumulator
\* stops the emission at the first handler that returns true, the second
\* with a class handler, and "adopt", a RUN_FIRST signal with a class
\* handler, an object and an integer parameter; GObject's "notify".
installed_signals(t) ==
    CASE t = "SimpleObject" ->
            << add_signal("name-changed", {"RUN_LAST"}, <<"String">>, "Unit"),
               add_signal_with_class_handler("change-name", {"RUN_LAST", "ACTION"},
                                             <<"String">>, "String", "change_name") >>
      [] t = "PropObject" ->
            << add_signal_with_accumulator("handled", {"RUN_LAST"}, <<"Int">>, "Bool",
                                           "true_handled"),
               add_signal_with_class_handler_and_accumulator(
                   "claimed", {"RUN_LAST"}, <<"Int">>, "Bool", "claim", "true_handled"),
               add_signal_with_class_handler("adopt", {"RUN_FIRST"},
                                             <<"SimpleObject", "Int">>, "Unit", "adopted") >>
      [] t = "Object" ->
            << add_signal("notify", {"RUN_FIRST", "DETAILED"}, <<"ParamSpec">>, "Unit") >>
      [] OTHER -> << >>

\* The signals of a type and of its ancestors.
RECURSIVE list_signals(_)
list_signals(t) ==
    installed_signals(t)
        \o (IF type_parent(t) = "none" THEN << >> ELSE list_signals(type_parent(t)))

RECURSIVE find_signal(_, _)
find_signal(signals, name) ==
    IF signals = << >> THEN NoSignal
    ELSE IF Head(signals).name = name THEN Head(signals)
    ELSE find_signal(Tail(signals), name)

\* g_signal_parse_name for an instance type: the name is split, the signal is
\* looked up on the type and its ancestors, and a detail is accepted only for
\* a signal that has details.
g_signal_parse_name_for(signal_name, type_) ==
    LET looked_up(parsed, signal) ==
            IF ~parsed.found \/ signal.name = ""
                \/ (parsed.detail # "" /\ "DETAILED" \notin signal.flags)
            THEN [found |-> FALSE, signal |-> NoSignal, detail |-> ""]
            ELSE [found |-> TRUE, signal |-> signal, detail |-> parsed.detail]
    IN  looked_up(g_signal_parse_name(signal_name),
                  find_signal(list_signals(type_), g_signal_parse_name(signal_name).signal))

\* The outcome of validate_signal_arguments: the error and, for an argument,
\* its index; or the signal, the detail and the arguments as handed on.
SignalErr(kind, i) ==
    [err |-> kind, index |-> i, signal |-> NoSignal, detail |-> "", args |-> << >>]

\* A validation that takes an object value that holds nothing only when
\* its own type is the parameter type or a subtype, and leaves its type.
validate_signal_argument_strict(arg, param_type) ==
    IF is_a(value_type(arg), "Object")
    THEN IF arg.s # Null
         THEN IF is_a(arg.s, param_type)
              THEN Ok(retag(arg, param_type))
              ELSE Err("ArgTypeMismatch")
         ELSE IF is_a(value_type(arg), param_type) THEN Ok(arg)
         ELSE Err("ArgTypeMismatch")
    ELSE IF param_type # value_type(arg) THEN Err("ArgTypeMismatch")
    ELSE Ok(arg)

\* validate_signal_arguments, one argument against its parameter type: an
\* object value is re-tagged when it holds nothing or an object of the
\* parameter type, any other value must have exactly the parameter type.
validate_signal_argument(arg, param_type) ==
    IF is_a(value_type(arg), "Object")
    THEN IF arg.s # Null
         THEN IF is_a(arg.s, param_type)
              THEN Ok(retag(arg, param_type))
              ELSE Err("ArgTypeMismatch")
         ELSE Ok(retag(arg, param_type))
    ELSE IF param_type # value_type(arg) THEN Err("ArgTypeMismatch")
    ELSE Ok(arg)

\* validate_signal_arguments, the loop over the zipped arguments and
\* parameter types, i the index of the first of args.
RECURSIVE validate_signal_args(_, _, _)
validate_signal_args(args, param_types, i) ==
    LET zipped(a, rest) ==
            IF a.err # "ok" THEN SignalErr(a.err, i)
            ELSE IF rest.err # "ok" THEN rest
            ELSE [rest EXCEPT !.args = <<a.value>> \o @]
    IN  IF args = << >> \/ param_types = << >>
        THEN [err |-> "ok", index |-> 0, signal |-> NoSignal, detail |-> "", args |-> << >>]
        ELSE zipped(validate_signal_argument(Head(args), Head(param_types)),
                    validate_signal_args(Tail(args), Tail(param_types), i + 1))

\* validate_signal_arguments without the test that the signal was found.
validate_signal_arguments_nofound(type_, signal_name, args) ==
    LET checked(parsed, v) ==
            IF Len(parsed.signal.arg_types) # Len(args) THEN SignalErr("ArityMismatch", 0)
            ELSE IF v.err # "ok" THEN v
            ELSE [v EXCEPT !.signal = parsed.signal, !.detail = parsed.detail]
    IN  checked(g_signal_parse_name_for(signal_name, type_),
                validate_signal_args(args,
                    g_signal_parse_name_for(signal_name, type_).signal.arg_types, 0))

\* validate_signal_arguments without the test of the number of arguments.
validate_signal_arguments_noarity(type_, signal_name, args) ==
    LET checked(parsed, v) ==
            IF ~parsed.found THEN SignalErr("NotFound", 0)
            ELSE IF v.err # "ok" THEN v
            ELSE [v EXCEPT !.signal = parsed.signal, !.detail = parsed.detail]
    IN  checked(g_signal_parse_name_for(signal_name, type_),
                validate_signal_args(args,
                    g_signal_parse_name_for(signal_name, type_).signal.arg_types, 0))

\* validate_signal_arguments: the signal is looked up (g_signal_query of a
\* signal that was found returns that signal), the number of arguments is
\* compared with the number of parameters, and the arguments are validated
\* in order.
validate_signal_arguments(type_, signal_name, args) ==
    LET checked(parsed, v) ==
            IF ~parsed.found THEN SignalErr("NotFound", 0)
            ELSE IF Len(parsed.signal.arg_types) # Len(args) THEN SignalErr("ArityMismatch", 0)
            ELSE IF v.err # "ok" THEN v
            ELSE [v EXCEPT !.signal = parsed.signal, !.detail = parsed.detail]
    IN  checked(g_signal_parse_name_for(signal_name, type_),
                validate_signal_args(args,
                    g_signal_parse_name_for(signal_name, type_).signal.arg_types, 0))

(***************************************************************************)
(* Signals: connecting handlers, the handler operations and emission.     *)
(***************************************************************************)
\* What a callback given to connect does when it is called: the value it
\* returns (NoValue for None) and whether it stops the emission first.
Callback(ret, stop) == [ret |-> ret, stop |-> stop]

NoCallback == Callback(NoValue, FALSE)

\* A handler.  blocked counts the blocks not yet undone; a handler that was
\* disconnected is gone for the runtime, and is kept here, with connected
\* false, as the record of the id it had.
Handler(id, signal, detail, after, closure, callback, return_type) ==
    [id |-> id, signal |-> signal, detail |-> detail, after |-> after, blocked |-> 0,
     connected |-> TRUE, closure |-> closure, callback |-> callback,
     return_type |-> return_type]

\* What a closure did: panicked, or returned value (NoValue for None).
Returned(value) == [panic |-> FALSE, value |-> value]

Panicked == [panic |-> TRUE, value |-> NoValue]

\* The closure connect_unsafe wraps the callback in, after the callback has
\* returned ret: the test of ret against the signal's return type.
closure_return(return_type, ret) ==
    IF return_type = "Unit"
    THEN IF ret # NoValue THEN Panicked ELSE Returned(NoValue)
    ELSE IF ret = NoValue THEN Panicked
    ELSE IF g_type_check_value_holds(ret, return_type) THEN Returned(ret)
    ELSE IF is_a(value_type(ret), "Object")
    THEN IF ret.s # Null
         THEN IF is_a(ret.s, return_type) THEN Returned(retag(ret, return_type))
              ELSE Panicked
         ELSE Returned(retag(ret, return_type))
    ELSE Panicked

\* g_signal_connect_closure_by_id: no handler and the id 0 for the signal id
\* 0 or a detail on a signal without details; else the handler gets the next
\* id of the runtime's counter.
g_signal_connect_closure_by_id(hs, id, signal, detail, after, callback) ==
    IF signal.name = "" \/ (detail # "" /\ "DETAILED" \notin signal.flags)
    THEN [handler |-> 0, handlers |-> hs]
    ELSE [handler |-> id,
          handlers |-> Append(hs, Handler(id, signal.name, detail, after, << >>,
                                          callback, signal.ret_type))]

\* The outcome of connect: the error, or the handler id; and the handlers.
Connected(err, id, hs) == [err |-> err, id |-> id, handlers |-> hs]

\* A connect_unsafe that tests neither the lookup nor the handler id.
connect_unsafe_unchecked(type_, hs, id, signal_name, after, callback) ==
    LET connected(c) == Connected("ok", c.handler, c.handlers)
        found(parsed) ==
            connected(g_signal_connect_closure_by_id(hs, id, parsed.signal, parsed.detail,
                                                     after, callback))
    IN  found(g_signal_parse_name_for(signal_name, type_))

\* A connect_unsafe that does not hand after on.
connect_unsafe_noafter(type_, hs, id, signal_name, after, callback) ==
    LET connected(c) ==
            IF c.handler = 0 THEN Connected("ConnectFailed", 0, hs)
            ELSE Connected("ok", c.handler, c.handlers)
        found(parsed) ==
            IF ~parsed.found THEN Connected("NotFound", 0, hs)
            ELSE connected(g_signal_connect_closure_by_id(hs, id, parsed.signal,
                                                          parsed.detail, FALSE, callback))
    IN  found(g_signal_parse_name_for(signal_name, type_))

\* ObjectExt::connect_unsafe (connect and connect_local pass on to it).
connect_unsafe(type_, hs, id, signal_name, after, callback) ==
    LET connected(c) ==
            IF c.handler = 0 THEN Connected("ConnectFailed", 0, hs)
            ELSE Connected("ok", c.handler, c.handlers)
        found(parsed) ==
            IF ~parsed.found THEN Connected("NotFound", 0, hs)
            ELSE connected(g_signal_connect_closure_by_id(hs, id, parsed.signal,
                                                          parsed.detail, after, callback))
    IN  found(g_signal_parse_name_for(signal_name, type_))

\* g_signal_handler_block: one more block on the handler with this id; a
\* warning and nothing else when the instance has no such handler.
RECURSIVE g_signal_handler_block(_, _)
g_signal_handler_block(hs, id) ==
    IF hs = << >> THEN << >>
    ELSE <<IF Head(hs).id = id /\ Head(hs).connected
           THEN [Head(hs) EXCEPT !.blocked = @ + 1] ELSE Head(hs)>>
         \o g_signal_handler_block(Tail(hs), id)

\* g_signal_handler_unblock: one block less; a warning and nothing else when
\* the handler is not blocked or the instance has no such handler.
RECURSIVE g_signal_handler_unblock(_, _)
g_signal_handler_unblock(hs, id) ==
    IF hs = << >> THEN << >>
    ELSE <<IF Head(hs).id = id /\ Head(hs).connected /\ Head(hs).blocked > 0
           THEN [Head(hs) EXCEPT !.blocked = @ - 1] ELSE Head(hs)>>
         \o g_signal_handler_unblock(Tail(hs), id)

\* g_signal_handler_disconnect: the handler is removed for good; a warning
\* and nothing else when the instance has no such handler.
RECURSIVE g_signal_handler_disconnect(_, _)
g_signal_handler_disconnect(hs, id) ==
    IF hs = << >> THEN << >>
    ELSE <<IF Head(hs).id = id THEN [Head(hs) EXCEPT !.connected = FALSE] ELSE Head(hs)>>
         \o g_signal_handler_disconnect(Tail(hs), id)

\* A block_signal that leaves the handler as it is.
block_signal_noop(hs, handler_id) == hs

\* ObjectExt::block_signal
block_signal(hs, handler_id) == g_signal_handler_block(hs, handler_id)

\* ObjectExt::unblock_signal
unblock_signal(hs, handler_id) == g_signal_handler_unblock(hs, handler_id)

\* A disconnect that blocks the handler and keeps it.
disconnect_block(hs, handler_id) == g_signal_handler_block(hs, handler_id)

\* ObjectExt::disconnect
disconnect(hs, handler_id) == g_signal_handler_disconnect(hs, handler_id)

\* The state of one emission: the signal emitted, the fields of the
\* instance, the calls made, whether a handler panicked, whether the emission
\* was stopped, and the return value so far.
Emission(signal, flds, evs, panicked, stopped, ret) ==
    [signal |-> signal, fields |-> flds, events |-> evs, panic |-> panicked,
     stopped |-> stopped, ret |-> ret]

\* g_signal_stop_emission_by_name, called from a handler of the emission st:
\* the emission is stopped if it is one of the signal named; else a warning
\* and nothing else.
g_signal_stop_emission_by_name(st, detailed_signal) ==
    IF st.signal = detailed_signal THEN [st EXCEPT !.stopped = TRUE] ELSE st

\* A stop_signal_emission that does not stop.
stop_signal_emission_noop(st, signal_name) == st

\* ObjectExt::stop_signal_emission
stop_signal_emission(st, signal_name) == g_signal_stop_emission_by_name(st, signal_name)

\* The emission after a handler returned value: without accumulator the
\* value replaces the return value; the accumulator of "handled" stores it
\* and ends the emission when it is true.  A signal that returns nothing
\* keeps nothing.
accumulate(signal, st, value) ==
    IF signal.ret_type = "Unit" THEN st
    ELSE IF signal.accumulator = "none" THEN [st EXCEPT !.ret = value]
    ELSE [st EXCEPT !.ret = value, !.stopped = @ \/ value.n # 0]

\* The class handler's place among the handlers, as a handler with id 0.
ClassHandler(signal) ==
    Handler(0, signal.name, "", FALSE, << >>, NoCallback, signal.ret_type)

\* The handlers of hs that an emission of signal with detail calls, for one
\* value of after: connected to the signal and not disconnected since,
\* without detail or with the emission's, and not blocked; in connection
\* order.
RECURSIVE connected_handlers(_, _, _, _)
connected_handlers(hs, signal, detail, after) ==
    IF hs = << >> THEN << >>
    ELSE (IF /\ Head(hs).signal = signal.name
             /\ Head(hs).connected
             /\ Head(hs).detail \in {"", detail}
             /\ Head(hs).after = after
             /\ Head(hs).blocked = 0
          THEN <<Head(hs)>> ELSE << >>)
         \o connected_handlers(Tail(hs), signal, detail, after)

\* The order of an emission: the class handler of a RUN_FIRST signal, the
\* handlers connected with after false, the class handler of a RUN_LAST
\* signal, the handlers connected with after true.
emission_order(hs, signal, detail) ==
    (IF signal.class_handler # "none" /\ "RUN_FIRST" \in signal.flags
     THEN <<ClassHandler(signal)>> ELSE << >>)
    \o connected_handlers(hs, signal, detail, FALSE)
    \o (IF signal.class_handler # "none" /\ "RUN_LAST" \in signal.flags
        THEN <<ClassHandler(signal)>> ELSE << >>)
    \o connected_handlers(hs, signal, detail, TRUE)

\* Class handlers of which the one of "change-name" stores the name and
\* returns the old one without emitting "name-changed".
class_handler_call_flat(type_, signal, st, hs, args) ==
    LET called == [st EXCEPT !.events = @ \o <<Event("class", signal.name, 0)>>]
    IN  CASE signal.class_handler = "change_name" ->
                IF args[1].s = Null
                THEN [called EXCEPT !.panic = TRUE]
                ELSE accumulate(signal,
                                [called EXCEPT !.fields.name = Payload(args[1].s, 0)],
                                Str(st.fields.name.s))
          [] signal.class_handler = "claim" ->
                accumulate(signal, called, Boolean(TRUE))
          [] OTHER ->
                [called EXCEPT !.fields = [@ EXCEPT !.child = Payload(args[1].s, 0)]]

\* The class handlers.  SimpleObject's handler of "change-name" unwraps its
\* string argument, takes the old name, stores the new one, emits
\* "name-changed" and returns the old name; PropObject's handler of "adopt"
\* stores the object it is given, and its handler of "claimed" returns true.
class_handler_call(type_, signal, st, hs, args) ==
    LET called == [st EXCEPT !.events = @ \o <<Event("class", signal.name, 0)>>]
        emitted(e) ==
            accumulate(signal,
                       [st EXCEPT !.fields = e.fields,
                                  !.events = @ \o <<Event("class", signal.name, 0)>>
                                               \o e.events,
                                  !.panic = e.res.err # "ok"],
                       Str(st.fields.name.s))
    IN  CASE signal.class_handler = "change_name" ->
                IF args[1].s = Null
                THEN [called EXCEPT !.panic = TRUE]
                ELSE emitted(emit(type_, [st.fields EXCEPT !.name = Payload(args[1].s, 0)],
                                  hs, <<"name-changed">>, <<Str(args[1].s)>>))
          [] signal.class_handler = "claim" ->
                accumulate(signal, called, Boolean(TRUE))
          [] OTHER ->
                [called EXCEPT !.fields = [@ EXCEPT !.child = Payload(args[1].s, 0)]]

\* One connected handler is called: the callback stops the emission if that
\* is what it does, and the closure tests what it returns.
closure_call(h, signal, st) ==
    LET returned(s, r) ==
            IF r.panic THEN [s EXCEPT !.panic = TRUE]
            ELSE accumulate(signal, s, r.value)
    IN  returned([(IF h.callback.stop THEN stop_signal_emission(st, signal.name) ELSE st)
                     EXCEPT !.events = @ \o <<Event("call", signal.name, h.id)>>],
                 closure_return(h.return_type, h.callback.ret))

\* The handlers of an emission are called in order until none is left, the
\* emission is stopped, or one panics.
RECURSIVE run_handlers(_, _, _, _, _, _)
run_handlers(order, type_, signal, st, hs, args) ==
    IF order = << >> \/ st.stopped \/ st.panic THEN st
    ELSE run_handlers(Tail(order), type_, signal,
                      IF Head(order).id = 0
                      THEN class_handler_call(type_, signal, st, hs, args)
                      ELSE closure_call(Head(order), signal, st),
                      hs, args)

\* g_signal_emitv: a warning and nothing else for the signal id 0.
g_signal_emitv(type_, flds, hs, signal, detail, args, return_value) ==
    IF signal.name = "" THEN Emission(signal.name, flds, << >>, FALSE, FALSE, return_value)
    ELSE run_handlers(emission_order(hs, signal, detail), type_, signal,
                      Emission(signal.name, flds, << >>, FALSE, FALSE, return_value),
                      hs, args)

\* The outcome of emit: Err, Ok with the return value (NoValue for None), or
\* "panic" when a handler panicked and emit does not return; the fields of
\* the instance and the calls made.
Emitted(res, flds, evs) == [res |-> res, fields |-> flds, events |-> evs]

\* ObjectExt::emit
emit(type_, flds, hs, signal_name, args) ==
    LET returned(e, return_type) ==
            IF e.panic THEN Emitted(Err("panic"), e.fields, e.events)
            ELSE IF value_type(e.ret) \notin {"Unit", "Invalid"}
            THEN Emitted(Ok(e.ret), e.fields, e.events)
            ELSE Emitted(Ok(NoValue), e.fields, e.events)
        validated(v) ==
            IF v.err # "ok" THEN Emitted([err |-> v.err, value |-> Int32(v.index)], flds, << >>)
            ELSE returned(g_signal_emitv(type_, flds, hs, v.signal, v.detail, v.args,
                                         IF v.signal.ret_type # "Unit"
                                         THEN from_type_value(v.signal.ret_type)
                                         ELSE NoValue),
                          v.signal.ret_type)
    IN  validated(validate_signal_arguments(type_, signal_name, args))

\* ObjectExt::emit_generic: the statements of emit, over arguments that are
\* values already.
emit_generic(type_, flds, hs, signal_name, args) ==
    emit(type_, flds, hs, signal_name, args)

(***************************************************************************)
(* SpecProp: an instance is constructed, then its properties are set and  *)
(* read.                                                                   *)
(***************************************************************************)
MaxProps == 2
MaxHandlers == 2

\* The types Object::new is tried on.
NewTypes == {"Object", "SimpleObject", "PropObject", "InitiallyUnowned",
             "AbstractObject", "DummyInterface", "String", "Invalid"}

\* The (name, value) pairs supplied to Object::new.
NewPairs ==
    { Pair("name", Str("a")), Pair("constructed", Boolean(TRUE)),
      Pair("id", Int32(1)), Pair("id", Int32(2)), Pair("lax", Int32(2)),
      Pair("level", Str("a")), Pair("child", Obj("Object", "PropObject")),
      Pair("child", Obj("Object", "Object")), Pair("name", Obj("Object", Null)),
      Pair("nope", Int32(0)) }

PropLists == UNION {[1..n -> NewPairs] : n \in 0..MaxProps}

\* The names and values given to set_property and get_property.
PropNames == {"name", "constructed", "id", "level", "lax", "child", "nope"}

PropValues ==
    { Str("a"), Int32(1), Int32(2), Boolean(TRUE),
      Obj("Object", Null), Obj("Object", "Object"), Obj("Object", "PropObject"),
      Obj("PropObject", Null) }

\* The names notify handlers are connected for.
NotifyNames == {<< >>, <<"name">>, <<"level">>}

Op(op, type_, props, res) == [op |-> op, type |-> type_, props |-> props, res |-> res]

NoOp == Op("none", "none", << >>, Ok(NoValue))

\* A run constructs once: a failed construction leaves nothing behind, so a
\* second attempt would start from the same state.
New(type_, properties) ==
    LET returned(r) ==
            /\ inst' = IF r.err = "ok" THEN type_ ELSE "none"
            /\ fields' = IF r.err = "ok" THEN r.fields ELSE fields
            /\ events' = r.events
            /\ last' = Op("new", type_, properties, Err(r.err))
    IN  /\ inst = "none"
        /\ last.op = "none"
        /\ returned(Object_new(type_, properties))
        /\ UNCHANGED <<handlers, next_id>>
        /\ UNCHANGED refVars
        /\ UNCHANGED extVars

NewGeneric(type_, properties) ==
    LET returned(r) ==
            /\ inst' = IF r.err = "ok" THEN type_ ELSE "none"
            /\ fields' = IF r.err = "ok" THEN r.fields ELSE fields
            /\ events' = r.events
            /\ last' = Op("new_generic", type_, properties, Err(r.err))
    IN  /\ inst = "none"
        /\ last.op = "none"
        /\ returned(Object_new_generic(type_, properties))
        /\ UNCHANGED <<handlers, next_id>>
        /\ UNCHANGED refVars
        /\ UNCHANGED extVars

SetProperty(property_name, value) ==
    LET returned(r) ==
            /\ fields' = r.st.fields
            /\ events' = r.st.events
            /\ last' = Op("set", inst, <<Pair(property_name, value)>>, r.res)
    IN  /\ inst # "none"
        /\ returned(set_property(inst, fields, handlers, property_name, value))
        /\ UNCHANGED <<inst, handlers, next_id>>
        /\ UNCHANGED refVars
        /\ UNCHANGED extVars

GetProperty(property_name) ==
    LET returned(r) ==
            /\ events' = r.events
            /\ last' = Op("get", inst, <<Pair(property_name, NoValue)>>, r.res)
    IN  /\ inst # "none"
        /\ returned(get_property(inst, fields, property_name))
        /\ UNCHANGED <<inst, fields, handlers, next_id>>
        /\ UNCHANGED refVars
        /\ UNCHANGED extVars

ConnectNotify(name) ==
    /\ inst # "none"
    /\ Len(handlers) < MaxHandlers
    /\ handlers' = connect_notify_unsafe(handlers, next_id, name, name)
    /\ next_id' = next_id + 1
    /\ events' = << >>
    /\ last' = Op("connect_notify", inst, << >>, Ok(NoValue))
    /\ UNCHANGED <<inst, fields>>
    /\ UNCHANGED refVars
    /\ UNCHANGED extVars

Notify(property_name) ==
    /\ inst # "none"
    /\ events' = notify(inst, handlers, property_name)
    /\ last' = Op("notify", inst, <<Pair(property_name, NoValue)>>, Ok(NoValue))
    /\ UNCHANGED <<inst, fields, handlers, next_id>>
    /\ UNCHANGED refVars
    /\ UNCHANGED extVars

InitProp ==
    /\ ref_count = 0
    /\ finalized = 0
    /\ owned = [t \in Threads |-> 0]
    /\ weak = [w \in WeakIds |-> "unset"]
    /\ pc = [t \in Threads |-> "idle"]
    /\ ptr = [t \in Threads |-> "null"]
    /\ upg = [t \in Threads |-> [res |-> "none", late |-> FALSE]]
    /\ nclones = 0
    /\ inst = "none"
    /\ fields = new_fields
    /\ handlers = << >>
    /\ next_id = 1
    /\ events = << >>
    /\ last = NoOp
    /\ bound = [w \in WeakIds |-> -1]
    /\ cloning = [t \in Threads |-> 0]
    /\ nops = 0
    /\ floating = FALSE
    /\ wrapper = "none"
    /\ binding = [stage |-> "none", source_property |-> "", target_property |-> "",
                  bidirectional |-> FALSE, transform_to |-> "none",
                  transform_from |-> "none", source |-> "a", target |-> "a"]

NextProp ==
    \/ \E t \in NewTypes, ps \in PropLists : New(t, ps)
    \/ \E t \in NewTypes, ps \in PropLists : NewGeneric(t, ps)
    \/ \E n \in PropNames, v \in PropValues : SetProperty(n, v)
    \/ \E n \in PropNames : GetProperty(n)

SpecProp == InitProp /\ [][NextProp]_vars

(***************************************************************************)
(* SpecNotify: a PropObject constructed without properties; handlers are  *)
(* connected to its notify signal while properties are set and notified.  *)
(***************************************************************************)
NotifyPropNames == {"name", "level", "lax", "nope"}

NotifyValues == {Str("a"), Int32(1), Int32(2)}

InitNotify ==
    /\ ref_count = 0
    /\ finalized = 0
    /\ owned = [t \in Threads |-> 0]
    /\ weak = [w \in WeakIds |-> "unset"]
    /\ pc = [t \in Threads |-> "idle"]
    /\ ptr = [t \in Threads |-> "null"]
    /\ upg = [t \in Threads |-> [res |-> "none", late |-> FALSE]]
    /\ nclones = 0
    /\ inst = "PropObject"
    /\ fields = Object_new("PropObject", << >>).fields
    /\ handlers = << >>
    /\ next_id = 1
    /\ events = << >>
    /\ last = NoOp
    /\ bound = [w \in WeakIds |-> -1]
    /\ cloning = [t \in Threads |-> 0]
    /\ nops = 0
    /\ floating = FALSE
    /\ wrapper = "none"
    /\ binding = [stage |-> "none", source_property |-> "", target_property |-> "",
                  bidirectional |-> FALSE, transform_to |-> "none",
                  transform_from |-> "none", source |-> "a", target |-> "a"]

NextNotify ==
    \/ \E n \in NotifyPropNames, v \in NotifyValues : SetProperty(n, v)
    \/ \E n \in NotifyNames : ConnectNotify(n)
    \/ \E n \in NotifyPropNames : Notify(n)

SpecNotify == InitNotify /\ [][NextNotify]_vars

(***************************************************************************)
(* SpecSignal: a PropObject; handlers are connected to its signals, then  *)
(* the signals are emitted, with names, arguments and callbacks of every  *)
(* kind.                                                                   *)
(***************************************************************************)
SignalOp(op, type_, signal_name, args, res) ==
    [op |-> op, type |-> type_, props |-> args, res |-> res, signal_name |-> signal_name]

\* A panic ends the process; nothing is called after it.
Running == last.res.err \notin {"panic", "abort"}

Connect(signal_name, after, callback) ==
    LET returned(r) ==
            /\ handlers' = r.handlers
            /\ next_id' = IF r.err = "ok" THEN next_id + 1 ELSE next_id
            /\ last' = SignalOp("connect", inst, signal_name, <<Boolean(after)>>,
                                [err |-> r.err, value |-> Int32(r.id)])
    IN  /\ Running
        /\ next_id <= MaxHandlers
        /\ returned(connect_unsafe(inst, handlers, next_id, signal_name, after, callback))
        /\ events' = << >>
        /\ UNCHANGED <<inst, fields>>
        /\ UNCHANGED refVars
        /\ UNCHANGED extVars

Emit(signal_name, args) ==
    LET returned(r) ==
            /\ fields' = r.fields
            /\ events' = r.events
            /\ last' = SignalOp("emit", inst, signal_name, args, r.res)
    IN  /\ Running
        /\ returned(emit(inst, fields, handlers, signal_name, args))
        /\ UNCHANGED <<inst, handlers, next_id>>
        /\ UNCHANGED refVars
        /\ UNCHANGED extVars

EmitGeneric(signal_name, args) ==
    LET returned(r) ==
            /\ fields' = r.fields
            /\ events' = r.events
            /\ last' = SignalOp("emit", inst, signal_name, args, r.res)
    IN  /\ Running
        /\ returned(emit_generic(inst, fields, handlers, signal_name, args))
        /\ UNCHANGED <<inst, handlers, next_id>>
        /\ UNCHANGED refVars
        /\ UNCHANGED extVars

\* The emissions tried: each signal with too few, too many, fitting and
\* unfitting arguments, and names that are no signal of the type.
SignalEmits ==
    { <<n, a>> : n \in {<<"change-name">>},
                 a \in { << >>, <<Str("a")>>, <<Int32(1)>>, <<Obj("Object", Null)>>,
                         <<Str("a"), Str("a")>> } }
    \cup { <<n, a>> : n \in {<<"name-changed">>, <<"nope">>},
                      a \in { << >>, <<Str("a")>> } }
    \cup { <<n, a>> : n \in {<<"name-changed", "::", "x">>}, a \in { <<Str("a")>> } }
    \cup { <<n, a>> : n \in {<<"name-changed">>}, a \in { <<Obj("Object", Null)>> } }
    \cup { <<n, a>> : n \in {<<"adopt">>},
                      a \in { <<Str("a")>>,
                              <<Obj("Object", "PropObject"), Int32(1)>>,
                              <<Obj("SimpleObject", "SimpleObject"), Int32(1)>>,
                              <<Obj("PropObject", Null), Int32(1)>>,
                              <<Obj("Object", Null), Int32(1)>>,
                              <<Obj("Object", "Object"), Int32(1)>>,
                              <<Obj("Object", "Object"), Str("a")>>,
                              <<Obj("Object", "PropObject"), Str("a")>>,
                              <<Int32(1), Str("a")>> } }

\* What the callbacks given to connect return.
SignalReturns ==
    { NoValue, Str("b"), Int32(1), Obj("Object", Null), Obj("Object", "Object") }

\* The connections made: a callback of every return on "change-name", one
\* that returns nothing and one that returns a string on "name-changed", and
\* the names that cannot be connected to.
SignalConnects ==
    { <<n, FALSE, Callback(r, FALSE)>> : n \in {<<"change-name">>}, r \in SignalReturns }
    \cup { <<n, FALSE, Callback(r, FALSE)>> :
              n \in {<<"name-changed">>}, r \in {NoValue, Str("b")} }
    \cup { <<n, TRUE, NoCallback>> : n \in {<<"nope">>, <<"name-changed", "::", "x">>} }

InitSignal ==
    /\ ref_count = 0
    /\ finalized = 0
    /\ owned = [t \in Threads |-> 0]
    /\ weak = [w \in WeakIds |-> "unset"]
    /\ pc = [t \in Threads |-> "idle"]
    /\ ptr = [t \in Threads |-> "null"]
    /\ upg = [t \in Threads |-> [res |-> "none", late |-> FALSE]]
    /\ nclones = 0
    /\ inst = "PropObject"
    /\ fields = Object_new("PropObject", << >>).fields
    /\ handlers = << >>
    /\ next_id = 1
    /\ events = << >>
    /\ last = NoOp
    /\ bound = [w \in WeakIds |-> -1]
    /\ cloning = [t \in Threads |-> 0]
    /\ nops = 0
    /\ floating = FALSE
    /\ wrapper = "none"
    /\ binding = [stage |-> "none", source_property |-> "", target_property |-> "",
                  bidirectional |-> FALSE, transform_to |-> "none",
                  transform_from |-> "none", source |-> "a", target |-> "a"]

\* The property names set and read next to the signals.
SignalPropNames == {"name", "nope"}

NextSignal ==
    \/ \E c \in SignalConnects : last.op \in {"none", "connect"} /\ Connect(c[1], c[2], c[3])
    \/ \E e \in SignalEmits : Emit(e[1], e[2])
    \/ \E e \in SignalEmits : EmitGeneric(e[1], e[2])
    \/ \E n \in SignalPropNames : Running /\ SetProperty(n, Str("a"))
    \/ \E n \in SignalPropNames : Running /\ GetProperty(n)

SpecSignal == InitSignal /\ [][NextSignal]_vars

(***************************************************************************)
(* SpecHandler: a PropObject; handlers are connected to "change-name",    *)
(* blocked, unblocked and disconnected, by ids in use, no longer in use   *)
(* and never handed out, and the signal is emitted.                       *)
(***************************************************************************)
MaxBlocks == 2
MaxWeakOps == 5

\* The handler ids passed to block_signal, unblock_signal and disconnect.  A
\* SignalHandlerId is made from any number by from_glib, so an id outlives
\* the disconnect that consumed it.
HandlerIds == 1..MaxHandlers

RECURSIVE block_count(_, _)
block_count(hs, id) ==
    IF hs = << >> THEN 0
    ELSE IF Head(hs).id = id THEN Head(hs).blocked
    ELSE block_count(Tail(hs), id)

Block(handler_id) ==
    /\ Running
    /\ block_count(handlers, handler_id) < MaxBlocks
    /\ handlers' = block_signal(handlers, handler_id)
    /\ events' = << >>
    /\ last' = SignalOp("block", inst, << >>, <<Int32(handler_id)>>, Ok(NoValue))
    /\ UNCHANGED <<inst, fields, next_id>>
    /\ UNCHANGED refVars
    /\ UNCHANGED extVars

Unblock(handler_id) ==
    /\ Running
    /\ handlers' = unblock_signal(handlers, handler_id)
    /\ events' = << >>
    /\ last' = SignalOp("unblock", inst, << >>, <<Int32(handler_id)>>, Ok(NoValue))
    /\ UNCHANGED <<inst, fields, next_id>>
    /\ UNCHANGED refVars
    /\ UNCHANGED extVars

Disconnect(handler_id) ==
    /\ Running
    /\ handlers' = disconnect(handlers, handler_id)
    /\ events' = << >>
    /\ last' = SignalOp("disconnect", inst, << >>, <<Int32(handler_id)>>, Ok(NoValue))
    /\ UNCHANGED <<inst, fields, next_id>>
    /\ UNCHANGED refVars
    /\ UNCHANGED extVars

\* The connections made: a callback that returns a string, one that stops
\* the emission as well, and a name that is no signal.
HandlerConnects ==
    { <<n, FALSE, Callback(Str("b"), s)>> : n \in {<<"change-name">>}, s \in BOOLEAN }
    \cup { <<n, FALSE, NoCallback>> : n \in {<<"nope">>} }

HandlerEmits == { <<n, <<Str("a")>> >> : n \in {<<"change-name">>} }

NextHandler ==
    \/ \E c \in HandlerConnects : Connect(c[1], c[2], c[3])
    \/ \E e \in HandlerEmits : Emit(e[1], e[2])
    \/ \E id \in HandlerIds : Block(id)
    \/ \E id \in HandlerIds : Unblock(id)
    \/ \E id \in HandlerIds : Disconnect(id)

SpecHandler == InitSignal /\ [][NextHandler]_vars

(***************************************************************************)
(* SpecDispatch: a PropObject; handlers are connected to "change-name"    *)
(* and "adopt", before and after the class handler, and blocked and       *)
(* unblocked, and the signals are emitted.                                 *)
(***************************************************************************)
DispatchConnects ==
    { <<n, a, Callback(Str("b"), FALSE)>> : n \in {<<"change-name">>}, a \in BOOLEAN }
    \cup { <<n, a, NoCallback>> : n \in {<<"adopt">>}, a \in BOOLEAN }

DispatchEmits ==
    { <<n, <<Str("a")>> >> : n \in {<<"change-name">>} }
    \cup { <<n, <<Obj("Object", "PropObject"), Int32(1)>> >> : n \in {<<"adopt">>} }

NextDispatch ==
    \/ \E c \in DispatchConnects : Connect(c[1], c[2], c[3])
    \/ \E e \in DispatchEmits : Emit(e[1], e[2])
    \/ \E id \in HandlerIds : Block(id)
    \/ \E id \in HandlerIds : Unblock(id)

SpecDispatch == InitSignal /\ [][NextDispatch]_vars

(***************************************************************************)
(* SpecAccumulate: a PropObject; handlers that return true or false are   *)
(* connected to "handled" and "claimed", whose return values an           *)
(* accumulator combines, and the signals are emitted.                     *)
(***************************************************************************)
AccumulateConnects ==
    { <<n, a, Callback(Boolean(b), FALSE)>> :
          n \in {<<"handled">>, <<"claimed">>}, a \in BOOLEAN, b \in BOOLEAN }

AccumulateEmits == { <<n, <<Int32(1)>> >> : n \in {<<"handled">>, <<"claimed">>} }

NextAccumulate ==
    \/ \E c \in AccumulateConnects : Connect(c[1], c[2], c[3])
    \/ \E e \in AccumulateEmits : Emit(e[1], e[2])

SpecAccumulate == InitSignal /\ [][NextAccumulate]_vars

(***************************************************************************)
(* SpecRef: one instance, created with one owned reference held by        *)
(* thread 1, and threads that clone, drop, hand over, downgrade, upgrade. *)
(***************************************************************************)
InitRef ==
    /\ ref_count = 1
    /\ finalized = 0
    /\ owned = [t \in Threads |-> IF t = 1 THEN 1 ELSE 0]
    /\ weak = [w \in WeakIds |-> "unset"]
    /\ pc = [t \in Threads |-> "idle"]
    /\ ptr = [t \in Threads |-> "null"]
    /\ upg = [t \in Threads |-> [res |-> "none", late |-> FALSE]]
    /\ nclones = 0
    /\ inst = "none"
    /\ fields = new_fields
    /\ handlers = << >>
    /\ next_id = 1
    /\ events = << >>
    /\ last = NoOp
    /\ bound = [w \in WeakIds |-> -1]
    /\ cloning = [t \in Threads |-> 0]
    /\ nops = 0
    /\ floating = FALSE
    /\ wrapper = "none"
    /\ binding = [stage |-> "none", source_property |-> "", target_property |-> "",
                  bidirectional |-> FALSE, transform_to |-> "none",
                  transform_from |-> "none", source |-> "a", target |-> "a"]

NextRef ==
    \/ \E t \in Threads : ObjectRef_clone(t)
    \/ \E t \in Threads : ObjectRef_drop(t)
    \/ \E t, u \in Threads : SendRef(t, u)
    \/ \E t \in Threads, w \in WeakIds : downgrade(t, w)
    \/ \E t \in Threads, w \in WeakIds : WeakRef_upgrade_get(t, w)
    \/ \E t \in Threads : WeakRef_upgrade_ret(t)
    \/ \E w \in WeakIds : WeakRef_drop(w)

SpecRef == InitRef /\ [][NextRef]_vars

(***************************************************************************)
(* WeakRef::new and Clone, and SendWeakRef: a WeakRef and the id of the   *)
(* thread it was made on.                                                  *)
(***************************************************************************)
\* The handles in use: those whose location has been initialised.
InUse(w) == weak[w] \in {"obj", "null"}

\* The test of SendWeakRef::into_weak_ref and of its Deref, for the thread
\* id bnd in the handle (0 for None) on thread t: whether it panics.
SendWeakRef_check_none(bnd, t) == FALSE

SendWeakRef_check(bnd, t) == bnd # 0 /\ bnd # t

\* From<WeakRef> for SendWeakRef: Some(get_thread_id()) on thread t.
SendWeakRef_from(t) == t

\* The last call on a weak handle: the thread, the handle, and whether it
\* panicked.
WeakOp(op, t, w, panicked) ==
    Op(op, "none", <<Pair("thread", Int32(t)), Pair("handle", Int32(w))>>,
       IF panicked THEN Err("panic") ELSE Ok(NoValue))

\* The lowest location not in use: where the next handle is made.
FreeHandle(w) == weak[w] = "unset" /\ \A v \in WeakIds : v < w => weak[v] # "unset"

\* WeakRef::new
WeakRef_new(t, w) ==
    /\ pc[t] = "idle"
    /\ nops < MaxWeakOps
    /\ nops' = nops + 1
    /\ FreeHandle(w)
    /\ nclones < MaxClones
    /\ nclones' = nclones + 1
    /\ weak' = [weak EXCEPT ![w] = g_weak_ref_init("null")]
    /\ bound' = [bound EXCEPT ![w] = -1]
    /\ last' = WeakOp("weak_new", t, w, FALSE)
    /\ UNCHANGED <<ref_count, finalized, owned, pc, ptr, upg, cloning>>
    /\ UNCHANGED <<inst, fields, handlers, next_id, events, floating, wrapper, binding>>

\* SendWeakRef::new: an empty WeakRef and None.
SendWeakRef_new(t, w) ==
    /\ pc[t] = "idle"
    /\ nops < MaxWeakOps
    /\ nops' = nops + 1
    /\ FreeHandle(w)
    /\ nclones < MaxClones
    /\ nclones' = nclones + 1
    /\ nclones < MaxClones
    /\ nclones' = nclones + 1
    /\ weak' = [weak EXCEPT ![w] = g_weak_ref_init("null")]
    /\ bound' = [bound EXCEPT ![w] = 0]
    /\ last' = WeakOp("send_new", t, w, FALSE)
    /\ UNCHANGED <<ref_count, finalized, owned, pc, ptr, upg, cloning>>
    /\ UNCHANGED <<inst, fields, handlers, next_id, events, floating, wrapper, binding>>

\* ObjectExt::downgrade on thread t, the WeakRef then made a SendWeakRef by
\* From on the same thread or, after being sent, on another.
SendWeakRef_from_weak(t, w) ==
    /\ pc[t] = "idle"
    /\ nops < MaxWeakOps
    /\ nops' = nops + 1
    /\ InUse(w)
    /\ bound[w] = -1
    /\ bound' = [bound EXCEPT ![w] = SendWeakRef_from(t)]
    /\ last' = WeakOp("send_from", t, w, FALSE)
    /\ UNCHANGED <<ref_count, finalized, owned, weak, pc, ptr, upg, nclones, cloning>>
    /\ UNCHANGED <<inst, fields, handlers, next_id, events, floating, wrapper, binding>>

\* SendWeakRef::into_weak_ref on thread t: a panic, which drops the handle
\* while unwinding, or the WeakRef inside.
SendWeakRef_into_weak_ref(t, w) ==
    /\ pc[t] = "idle"
    /\ nops < MaxWeakOps
    /\ nops' = nops + 1
    /\ InUse(w)
    /\ bound[w] # -1
    /\ IF SendWeakRef_check(bound[w], t)
       THEN /\ pc' = [pc EXCEPT ![t] = "panic"]
            /\ weak' = [weak EXCEPT ![w] = "unset"]
            /\ last' = WeakOp("into_weak_ref", t, w, TRUE)
       ELSE /\ pc' = pc
            /\ weak' = weak
            /\ last' = WeakOp("into_weak_ref", t, w, FALSE)
    /\ bound' = [bound EXCEPT ![w] = -1]
    /\ UNCHANGED <<ref_count, finalized, owned, ptr, upg, nclones, cloning>>
    /\ UNCHANGED <<inst, fields, handlers, next_id, events, floating, wrapper, binding>>

\* WeakRef::upgrade on thread t, through Deref when the handle is a
\* SendWeakRef, which panics on another thread than the handle's:
\* g_weak_ref_get, then None for null or the object wrapped by
\* from_glib_full.
Weak_upgrade(t, w) ==
    /\ pc[t] = "idle"
    /\ nops < MaxWeakOps
    /\ nops' = nops + 1
    /\ InUse(w)
    /\ ref_count < MaxRefs
    /\ IF bound[w] # -1 /\ SendWeakRef_check(bound[w], t)
       THEN /\ pc' = [pc EXCEPT ![t] = "panic"]
            /\ upg' = [upg EXCEPT ![t] = [res |-> "panic", late |-> FALSE]]
            /\ last' = WeakOp("upgrade", t, w, TRUE)
            /\ UNCHANGED <<owned, ref_count>>
       ELSE /\ pc' = pc
            /\ upg' = [upg EXCEPT ![t] =
                         [res |-> IF g_weak_ref_get(weak[w], ref_count).p = "null"
                                  THEN "None" ELSE "Some",
                          late |-> FALSE]]
            /\ ref_count' = g_weak_ref_get(weak[w], ref_count).rc
            /\ owned' = [owned EXCEPT ![t] =
                           IF g_weak_ref_get(weak[w], ref_count).p = "null"
                           THEN @ ELSE @ + 1]
            /\ last' = WeakOp("upgrade", t, w, FALSE)
    /\ UNCHANGED <<finalized, weak, ptr, nclones, bound, cloning>>
    /\ UNCHANGED <<inst, fields, handlers, next_id, events, floating, wrapper, binding>>

\* ObjectExt::downgrade on thread t, into the handle w.
Weak_downgrade(t, w) ==
    /\ pc[t] = "idle"
    /\ nops < MaxWeakOps
    /\ nops' = nops + 1
    /\ owned[t] >= 1
    /\ FreeHandle(w)
    /\ nclones < MaxClones
    /\ nclones' = nclones + 1
    /\ weak' = [weak EXCEPT ![w] = g_weak_ref_init("obj")]
    /\ bound' = [bound EXCEPT ![w] = -1]
    /\ last' = WeakOp("downgrade", t, w, FALSE)
    /\ UNCHANGED <<ref_count, finalized, owned, pc, ptr, upg, cloning>>
    /\ UNCHANGED <<inst, fields, handlers, next_id, events, floating, wrapper, binding>>

\* Clone for WeakRef, and for SendWeakRef, which clones the WeakRef inside
\* without Deref and copies the thread id; first half: self.upgrade() up to
\* g_weak_ref_get, and the zeroed location c of the clone.
WeakRef_clone_get(t, w, c) ==
    /\ pc[t] = "idle"
    /\ nops < MaxWeakOps
    /\ nops' = nops + 1
    /\ InUse(w)
    /\ FreeHandle(c)
    /\ nclones < MaxClones
    /\ nclones' = nclones + 1
    /\ ref_count < MaxRefs
    /\ ptr' = [ptr EXCEPT ![t] = g_weak_ref_get(weak[w], ref_count).p]
    /\ ref_count' = g_weak_ref_get(weak[w], ref_count).rc
    /\ pc' = [pc EXCEPT ![t] = "cloning"]
    /\ weak' = [weak EXCEPT ![c] = "zeroed"]
    /\ bound' = [bound EXCEPT ![c] = bound[w]]
    /\ cloning' = [cloning EXCEPT ![t] = c]
    /\ last' = WeakOp("clone", t, w, FALSE)
    /\ UNCHANGED <<finalized, owned, upg>>
    /\ UNCHANGED <<inst, fields, handlers, next_id, events, floating, wrapper, binding>>

\* A clone that keeps the reference its upgrade took.
WeakRef_clone_init_keep(t) ==
    /\ pc[t] = "cloning"
    /\ nops' = nops
    /\ weak' = [weak EXCEPT ![cloning[t]] = g_weak_ref_init(ptr[t])]
    /\ pc' = [pc EXCEPT ![t] = "idle"]
    /\ ptr' = [ptr EXCEPT ![t] = "null"]
    /\ cloning' = [cloning EXCEPT ![t] = 0]
    /\ last' = WeakOp("cloned", t, cloning[t], FALSE)
    /\ UNCHANGED <<ref_count, finalized, owned, upg, nclones, bound>>
    /\ UNCHANGED <<inst, fields, handlers, next_id, events, floating, wrapper, binding>>

\* Clone, second half: g_weak_ref_init of the clone's location with the
\* upgraded object or null, and the drop of the upgraded object.
WeakRef_clone_init(t) ==
    /\ pc[t] = "cloning"
    /\ nops' = nops
    /\ IF ptr[t] = "obj"
       THEN \E r \in g_object_unref(ref_count, finalized,
                                    [weak EXCEPT ![cloning[t]] = g_weak_ref_init(ptr[t])]) :
               /\ ref_count' = r.rc
               /\ finalized' = r.fin
               /\ weak' = r.wk
       ELSE /\ weak' = [weak EXCEPT ![cloning[t]] = g_weak_ref_init(ptr[t])]
            /\ UNCHANGED <<ref_count, finalized>>
    /\ pc' = [pc EXCEPT ![t] = "idle"]
    /\ ptr' = [ptr EXCEPT ![t] = "null"]
    /\ cloning' = [cloning EXCEPT ![t] = 0]
    /\ last' = WeakOp("cloned", t, cloning[t], FALSE)
    /\ UNCHANGED <<owned, upg, nclones, bound>>
    /\ UNCHANGED <<inst, fields, handlers, next_id, events, floating, wrapper, binding>>

\* Drop for WeakRef and for SendWeakRef, which has no Drop of its own: the
\* WeakRef inside is dropped, on any thread.
Weak_drop(t, w) ==
    /\ pc[t] = "idle"
    /\ nops < MaxWeakOps
    /\ nops' = nops + 1
    /\ InUse(w)
    /\ weak' = [weak EXCEPT ![w] = "unset"]
    /\ bound' = [bound EXCEPT ![w] = -1]
    /\ last' = WeakOp("drop", t, w, FALSE)
    /\ UNCHANGED <<ref_count, finalized, owned, pc, ptr, upg, nclones, cloning>>
    /\ UNCHANGED <<inst, fields, handlers, next_id, events, floating, wrapper, binding>>

(***************************************************************************)
(* SpecWeak: one instance with one owned reference held by thread 1, and  *)
(* threads that downgrade, make empty handles, bind handles to their      *)
(* thread, clone, upgrade, unwrap and drop them, and drop references; at  *)
(* most MaxClones handles are made in all.                                *)
(***************************************************************************)
NextWeak ==
    \/ \E t \in Threads : ObjectRef_drop(t)
    \/ \E t \in Threads, w \in WeakIds : Weak_downgrade(t, w)
    \/ \E t \in Threads, w \in WeakIds : WeakRef_new(t, w)
    \/ \E t \in Threads, w \in WeakIds : SendWeakRef_new(t, w)
    \/ \E t \in Threads, w \in WeakIds : SendWeakRef_from_weak(t, w)
    \/ \E t \in Threads, w \in WeakIds : SendWeakRef_into_weak_ref(t, w)
    \/ \E t \in Threads, w \in WeakIds : Weak_upgrade(t, w)
    \/ \E t \in Threads, w, c \in WeakIds : WeakRef_clone_get(t, w, c)
    \/ \E t \in Threads : WeakRef_clone_init(t)
    \/ \E t \in Threads, w \in WeakIds : Weak_drop(t, w)

SpecWeak == InitRef /\ [][NextWeak]_vars

(***************************************************************************)
(* Floating references: what Object::new_internal makes of the pointer    *)
(* g_object_newv returns, and from_glib_none on an instance pointer.      *)
(***************************************************************************)
\* The reference count and the floating flag of an instance.
Counted(rc, fl) == [rc |-> rc, fl |-> fl]

\* g_object_newv, the instance's count: one reference, floating for a
\* GInitiallyUnowned (its instance init forces the reference floating).
g_object_newv_ref(type_) == Counted(1, is_a(type_, "InitiallyUnowned"))

\* g_object_ref_sink: a floating reference is made an ordinary one and the
\* count stays; on an instance that is not floating it is g_object_ref.
g_object_ref_sink(rc, fl) ==
    IF fl THEN Counted(rc, FALSE) ELSE Counted(g_object_ref(rc), FALSE)

\* FromGlibPtrFull for ObjectRef: the pointer as it is.
from_glib_full(rc, fl) == Counted(rc, fl)

\* A from_glib_none that wraps the pointer without g_object_ref_sink.
from_glib_none_keep(rc, fl) == Counted(rc, fl)

\* FromGlibPtrNone for ObjectRef: the pointer g_object_ref_sink returns.
from_glib_none(rc, fl) == g_object_ref_sink(rc, fl)

\* The tail of Object::new_internal with from_glib_full for every type.
new_internal_wrap_full(type_, rc, fl) == from_glib_full(rc, fl)

\* The tail of Object::new_internal: from_glib_none for a subtype of
\* InitiallyUnowned, from_glib_full for any other type.
new_internal_wrap(type_, rc, fl) ==
    IF is_a(type_, "InitiallyUnowned") THEN from_glib_none(rc, fl)
    ELSE from_glib_full(rc, fl)

\* The types an instance is made of under SpecFloat.
FloatTypes == {"Object", "SimpleObject", "PropObject", "InitiallyUnowned",
               "AbstractObject", "String"}

\* Object::new on thread 1, up to the return of g_object_newv.
Float_newv(type_) ==
    LET returned(r) ==
            /\ inst' = IF r.err = "ok" THEN type_ ELSE "none"
            /\ fields' = IF r.err = "ok" THEN r.fields ELSE fields
            /\ events' = r.events
            /\ last' = Op(IF r.err = "ok" THEN "newv" ELSE "new", type_, << >>, Err(r.err))
            /\ pc' = [pc EXCEPT ![1] = IF r.err = "ok" THEN "new" ELSE "idle"]
            /\ ref_count' = IF r.err = "ok" THEN g_object_newv_ref(type_).rc ELSE ref_count
            /\ floating' = IF r.err = "ok" THEN g_object_newv_ref(type_).fl ELSE floating
    IN  /\ inst = "none"
        /\ last.op = "none"
        /\ returned(Object_new(type_, << >>))
        /\ UNCHANGED <<finalized, owned, weak, ptr, upg, nclones>>
        /\ UNCHANGED <<handlers, next_id>>
        /\ UNCHANGED <<bound, cloning, nops, wrapper, binding>>

\* Object::new, the return: the pointer wrapped into the Object.
Float_new_ret ==
    /\ pc[1] = "new"
    /\ ref_count' = new_internal_wrap(inst, ref_count, floating).rc
    /\ floating' = new_internal_wrap(inst, ref_count, floating).fl
    /\ owned' = [owned EXCEPT ![1] = @ + 1]
    /\ pc' = [pc EXCEPT ![1] = "idle"]
    /\ last' = Op("new", inst, << >>, Ok(NoValue))
    /\ UNCHANGED <<finalized, weak, ptr, upg, nclones>>
    /\ UNCHANGED <<inst, fields, handlers, next_id, events>>
    /\ UNCHANGED <<bound, cloning, nops, wrapper, binding>>

\* from_glib_none on the pointer of the instance, on thread t (a pointer
\* the native side lends, as the arguments of a callback): a new ObjectRef.
FromGlibNone(t) ==
    /\ pc[1] = "idle"
    /\ inst # "none"
    /\ ref_count >= 1
    /\ ref_count < MaxRefs
    /\ ref_count' = from_glib_none(ref_count, floating).rc
    /\ floating' = from_glib_none(ref_count, floating).fl
    /\ owned' = [owned EXCEPT ![t] = @ + 1]
    /\ last' = Op("from_glib_none", inst, <<Pair("thread", Int32(t))>>, Ok(NoValue))
    /\ UNCHANGED <<finalized, weak, pc, ptr, upg, nclones>>
    /\ UNCHANGED <<inst, fields, handlers, next_id, events>>
    /\ UNCHANGED <<bound, cloning, nops, wrapper, binding>>

(***************************************************************************)
(* SpecFloat: one Object::new, then references to the instance are made   *)
(* from its pointer, cloned, sent and dropped.                             *)
(***************************************************************************)
NextFloat ==
    \/ \E t \in FloatTypes : Float_newv(t)
    \/ Float_new_ret
    \/ \E t \in Threads : FromGlibNone(t)
    \/ \E t \in Threads : pc[1] = "idle" /\ ObjectRef_clone(t)
    \/ \E t \in Threads : pc[1] = "idle" /\ ObjectRef_drop(t)
    \/ \E t, u \in Threads : pc[1] = "idle" /\ SendRef(t, u)

SpecFloat == InitProp /\ [][NextFloat]_vars

(***************************************************************************)
(* Cast: the checked casts of a wrapper to another wrapper type.           *)
(***************************************************************************)
\* An is that compares the instance's type with the target for equality.
ObjectExt_is_exact(type_, target) == type_ = target

\* ObjectExt::is on an instance of dynamic type type_:
\* self.get_type().is_a(&U::static_type())
ObjectExt_is(type_, target) == is_a(type_, target)

\* The outcome of a cast of a wrapper of static type self: whether it
\* succeeded and the static type of the wrapper handed back (T in Ok or
\* Some, Self in Err; for a cast by reference self stays where it is).
Cast(ok, type_) == [ok |-> ok, type |-> type_]

\* Cast::downcast
downcast(self, dyn, T) ==
    IF ObjectExt_is(dyn, T) THEN Cast(TRUE, T) ELSE Cast(FALSE, self)

\* Cast::downcast_ref
downcast_ref(self, dyn, T) ==
    IF ObjectExt_is(dyn, T) THEN Cast(TRUE, T) ELSE Cast(FALSE, self)

\* Cast::dynamic_cast
dynamic_cast(self, dyn, T) ==
    IF ~ObjectExt_is(dyn, T) THEN Cast(FALSE, self) ELSE Cast(TRUE, T)

\* Cast::dynamic_cast_ref
dynamic_cast_ref(self, dyn, T) ==
    IF ~ObjectExt_is(dyn, T) THEN Cast(FALSE, self) ELSE Cast(TRUE, T)

\* CanDowncast<T> for Self: T is statically known to be a Self (T: IsA<Self>).
CanDowncast(self, T) == is_a(T, self)

\* The wrapper types casts are tried to, and the types instances are made of.
CastTypes == {"Object", "SimpleObject", "PropObject", "InitiallyUnowned", "DummyInterface"}

CastNewTypes == {"Object", "SimpleObject", "PropObject", "InitiallyUnowned"}

\* The last cast: the target, the static type of self, whether the cast was
\* by value, and Ok with the wrapper type handed back or the failure.
CastOp(op, T, self, r) ==
    Op(op, T, <<Pair("self", Obj(self, Null))>>,
       IF r.ok THEN Ok(Obj(r.type, Null))
       ELSE [err |-> "CastFailed", value |-> Obj(r.type, Null)])

\* Object::new(type_, &[]): an Object wrapper of a new instance.
Cast_new(type_) ==
    /\ inst = "none"
    /\ Object_new(type_, << >>).err = "ok"
    /\ inst' = type_
    /\ fields' = Object_new(type_, << >>).fields
    /\ events' = Object_new(type_, << >>).events
    /\ last' = Op("new", type_, << >>, Ok(NoValue))
    /\ wrapper' = "Object"
    /\ ref_count' = 1
    /\ owned' = [owned EXCEPT ![1] = 1]
    /\ UNCHANGED <<finalized, weak, pc, ptr, upg, nclones>>
    /\ UNCHANGED <<handlers, next_id>>
    /\ UNCHANGED <<bound, cloning, nops, floating, binding>>

\* A cast by value of the wrapper thread 1 holds: self is consumed and
\* comes back as T in Ok or as itself in Err.
CastByValue(op, T, r) ==
    /\ inst # "none"
    /\ owned[1] >= 1
    /\ wrapper' = r.type
    /\ last' = CastOp(op, T, wrapper, r)
    /\ UNCHANGED refVars
    /\ UNCHANGED <<inst, fields, handlers, next_id, events>>
    /\ UNCHANGED <<bound, cloning, nops, floating, binding>>

\* A cast by reference: self is borrowed and stays what it is.
CastByRef(op, T, r) ==
    /\ inst # "none"
    /\ owned[1] >= 1
    /\ wrapper' = wrapper
    /\ last' = CastOp(op, T, wrapper, r)
    /\ UNCHANGED refVars
    /\ UNCHANGED <<inst, fields, handlers, next_id, events>>
    /\ UNCHANGED <<bound, cloning, nops, floating, binding>>

Downcast(T) ==
    /\ CanDowncast(wrapper, T)
    /\ CastByValue("downcast", T, downcast(wrapper, inst, T))

DowncastRef(T) ==
    /\ CanDowncast(wrapper, T)
    /\ CastByRef("downcast_ref", T, downcast_ref(wrapper, inst, T))

DynamicCast(T) == CastByValue("dynamic_cast", T, dynamic_cast(wrapper, inst, T))

DynamicCastRef(T) == CastByRef("dynamic_cast_ref", T, dynamic_cast_ref(wrapper, inst, T))

(***************************************************************************)
(* SpecCast: an instance is made, its wrapper is cast by value and by     *)
(* reference, and cloned in between.                                       *)
(***************************************************************************)
NextCast ==
    \/ \E t \in CastNewTypes : Cast_new(t)
    \/ \E T \in CastTypes : Downcast(T)
    \/ \E T \in CastTypes : DowncastRef(T)
    \/ \E T \in CastTypes : DynamicCast(T)
    \/ \E T \in CastTypes : DynamicCastRef(T)
    \/ inst # "none" /\ ObjectRef_clone(1)

SpecCast == InitProp /\ [][NextCast]_vars

(***************************************************************************)
(* BindingBuilder: a binding between the "name" properties of two         *)
(* SimpleObject instances, the source and the target.                     *)
(***************************************************************************)
\* The values the properties take, and what the functions given to
\* transform_to and transform_from make of a value: "next" maps it to the
\* following one, "refuse" returns None; "none" is no function given.
BindValues == {"a", "b", "c"}

BindFuncs == {"next", "refuse"}

BindNames == {"name", "nope"}

func_call(f, value) ==
    IF f = "refuse" THEN Null
    ELSE IF value = "a" THEN "b" ELSE IF value = "b" THEN "c" ELSE "a"

\* The outcome of a transform closure: whether it stored a value, and the
\* value in the output GValue.
Transformed(ok, value) == [ok |-> ok, value |-> value]

\* A transform closure that reports success without storing the value the
\* function returned.
transform_closure_noset(f, from, to) == Transformed(func_call(f, from) # Null, to)

\* BindingBuilder::transform_closure: the function is called on the value
\* from; for None the closure returns false, for Some(value) it stores the
\* value in the output GValue (which held to) and returns true.
transform_closure(f, from, to) ==
    IF func_call(f, from) = Null THEN Transformed(FALSE, to)
    ELSE Transformed(TRUE, func_call(f, from))

\* The builder or the binding: stage is "none", "builder", "built" (build
\* returned a Binding) or "rejected" (build returned None); source and
\* target are the values of the two properties.
Binding(stage, sp, tp, bidir, to, from, source, target) ==
    [stage |-> stage, source_property |-> sp, target_property |-> tp,
     bidirectional |-> bidir, transform_to |-> to, transform_from |-> from,
     source |-> source, target |-> target]

NoBinding == Binding("none", "", "", FALSE, "none", "none", "a", "a")

\* BindingBuilder::new, through ObjectExt::bind_property
BindingBuilder_new(b, sp, tp) ==
    [b EXCEPT !.stage = "builder", !.source_property = sp, !.target_property = tp,
              !.bidirectional = FALSE, !.transform_to = "none", !.transform_from = "none"]

\* BindingBuilder::transform_from
BindingBuilder_transform_from(b, f) == [b EXCEPT !.transform_from = f]

\* BindingBuilder::transform_to
BindingBuilder_transform_to(b, f) == [b EXCEPT !.transform_to = f]

\* BindingBuilder::flags
BindingBuilder_flags(b, bidir) == [b EXCEPT !.bidirectional = bidir]

\* g_object_bind_property_with_closures: NULL unless both properties exist
\* (the "name" property of SimpleObject is readable and writable).
g_object_bind_property_with_closures(b) ==
    find_property("SimpleObject", b.source_property) # NoPSpec
    /\ find_property("SimpleObject", b.target_property) # NoPSpec

\* BindingBuilder::build
BindingBuilder_build(b) ==
    IF g_object_bind_property_with_closures(b) THEN [b EXCEPT !.stage = "built"]
    ELSE [b EXCEPT !.stage = "rejected"]

\* The binding's handler of the source's notify: the value is transformed
\* (by the closure, or copied when there is none) and, when the transform
\* succeeds, set on the target; the binding ignores the notify its own
\* write causes.
on_source_notify(b) ==
    LET set(t) == IF t.ok THEN [b EXCEPT !.target = t.value] ELSE b
    IN  IF b.stage # "built" THEN b
        ELSE IF b.transform_to = "none" THEN set(Transformed(TRUE, b.source))
        ELSE set(transform_closure(b.transform_to, b.source, b.target))

\* The binding's handler of the target's notify, connected for a
\* bidirectional binding only.
on_target_notify(b) ==
    LET set(t) == IF t.ok THEN [b EXCEPT !.source = t.value] ELSE b
    IN  IF b.stage # "built" \/ ~b.bidirectional THEN b
        ELSE IF b.transform_from = "none" THEN set(Transformed(TRUE, b.target))
        ELSE set(transform_closure(b.transform_from, b.target, b.source))

BindOp(op, name, value) == Op(op, "SimpleObject", <<Pair(name, Str(value))>>, Ok(NoValue))

BindStep(op, name, value, b) ==
    /\ binding' = b
    /\ last' = BindOp(op, name, value)
    /\ UNCHANGED refVars
    /\ UNCHANGED <<inst, fields, handlers, next_id, events>>
    /\ UNCHANGED <<bound, cloning, nops, floating, wrapper>>

BindProperty(sp, tp) ==
    /\ binding.stage = "none"
    /\ BindStep("bind_property", sp, tp, BindingBuilder_new(binding, sp, tp))

TransformTo(f) ==
    /\ binding.stage = "builder"
    /\ BindStep("transform_to", "func", f, BindingBuilder_transform_to(binding, f))

TransformFrom(f) ==
    /\ binding.stage = "builder"
    /\ BindStep("transform_from", "func", f, BindingBuilder_transform_from(binding, f))

Flags(bidir) ==
    /\ binding.stage = "builder"
    /\ BindStep("flags", "bidirectional", IF bidir THEN "yes" ELSE "no",
                BindingBuilder_flags(binding, bidir))

Build ==
    /\ binding.stage = "builder"
    /\ BindStep("build", "binding", "", BindingBuilder_build(binding))

\* source.set_property("name", value): the value is stored and notified.
SetSource(value) ==
    BindStep("set_source", "name", value, on_source_notify([binding EXCEPT !.source = value]))

\* target.set_property("name", value)
SetTarget(value) ==
    BindStep("set_target", "name", value, on_target_notify([binding EXCEPT !.target = value]))

(***************************************************************************)
(* SpecBind: the properties of the source and the target are set while a  *)
(* binding between them is described and built.                           *)
(***************************************************************************)
InitBind == InitProp

NextBind ==
    \/ \E sp, tp \in BindNames : BindProperty(sp, tp)
    \/ \E f \in BindFuncs : TransformTo(f)
    \/ \E f \in BindFuncs : TransformFrom(f)
    \/ \E bidir \in BOOLEAN : Flags(bidir)
    \/ Build
    \/ \E v \in BindValues : SetSource(v)
    \/ \E v \in BindValues : SetTarget(v)

SpecBind == InitBind /\ [][NextBind]_vars

(***************************************************************************)
(* SpecReenter: handlers are connected to "name-changed" and, after the   *)
(* class handler, to "change-name"; "change-name" is emitted and the name *)
(* is set, both of which emit "name-changed" from inside.                 *)
(***************************************************************************)
ReenterConnects ==
    { <<n, a, NoCallback>> : n \in {<<"name-changed">>}, a \in BOOLEAN }
    \cup { <<n, a, Callback(Str("c"), FALSE)>> : n \in {<<"change-name">>}, a \in BOOLEAN }

ReenterNames == {"a", "b"}

NextReenter ==
    \/ \E c \in ReenterConnects : Connect(c[1], c[2], c[3])
    \/ \E v \in ReenterNames : Emit(<<"change-name">>, <<Str(v)>>)
    \/ \E v \in ReenterNames : Running /\ SetProperty("name", Str(v))

SpecReenter == InitSignal /\ [][NextReenter]_vars

(***************************************************************************)
(* ObjectExt::set_properties, set_properties_generic and                  *)
(* set_property_generic.                                                   *)
(***************************************************************************)
\* The closure set_properties maps over the pairs: the descriptor is looked
\* up in the listed properties and the value validated, construct-only
\* properties not allowed.
set_properties_param(type_, pspecs, name, value) ==
    LET found(pspec) ==
            IF pspec.name = "" THEN Err("NotFound")
            ELSE validate_property_type(type_, FALSE, pspec, value)
    IN  found(find_pspec(pspecs, name))

\* property_values.iter().map(...).collect::<Result<_, _>>()
RECURSIVE set_properties_params(_, _, _)
set_properties_params(type_, pspecs, property_values) ==
    LET collect(r, rest) ==
            IF r.err # "ok" THEN [err |-> r.err, params |-> << >>]
            ELSE IF rest.err # "ok" THEN rest
            ELSE [err |-> "ok",
                  params |-> <<Pair(Head(property_values).name, r.value)>> \o rest.params]
    IN  IF property_values = << >> THEN [err |-> "ok", params |-> << >>]
        ELSE collect(set_properties_param(type_, pspecs, Head(property_values).name,
                                          Head(property_values).value),
                     set_properties_params(type_, pspecs, Tail(property_values)))

\* The result of a write and the native state it leaves.
Written(res, st) == [res |-> res, st |-> st]

\* A set_properties that validates and writes pair by pair.
RECURSIVE set_properties_eager(_, _, _, _)
set_properties_eager(type_, flds, hs, property_values) ==
    LET rest(w) ==
            [w EXCEPT !.st.events = Native("obj", flds, FALSE, << >>).events \o @]
        next(st) ==
            LET w == set_properties_eager(type_, st.fields, hs, Tail(property_values))
            IN  [w EXCEPT !.st.events = st.events \o @]
        first(v) ==
            IF v.err # "ok" THEN Written(Err(v.err), Native("obj", flds, FALSE, << >>))
            ELSE next(g_object_set_property(type_, Native("obj", flds, FALSE, << >>), hs,
                                            Head(property_values).name, v.value, FALSE))
    IN  IF property_values = << >> THEN Written(Ok(NoValue), Native("obj", flds, FALSE, << >>))
        ELSE first(set_properties_param(type_, list_properties(type_),
                                        Head(property_values).name,
                                        Head(property_values).value))

\* ObjectExt::set_properties: every pair is validated, then every pair is
\* written, in the order given.
set_properties(type_, flds, hs, property_values) ==
    LET written(st) == Written(IF st.panic THEN Err("abort") ELSE Ok(NoValue), st)
        validated(v) ==
            IF v.err # "ok" THEN Written(Err(v.err), Native("obj", flds, FALSE, << >>))
            ELSE written(set_each(type_, Native("obj", flds, FALSE, << >>), hs,
                                  v.params, FALSE))
    IN  validated(set_properties_params(type_, list_properties(type_), property_values))

\* ObjectExt::set_properties_generic: the statements of set_properties, over
\* values.
set_properties_generic(type_, flds, hs, property_values) ==
    LET written(st) == Written(IF st.panic THEN Err("abort") ELSE Ok(NoValue), st)
        validated(v) ==
            IF v.err # "ok" THEN Written(Err(v.err), Native("obj", flds, FALSE, << >>))
            ELSE written(set_each(type_, Native("obj", flds, FALSE, << >>), hs,
                                  v.params, FALSE))
    IN  validated(set_properties_params(type_, list_properties(type_), property_values))

\* ObjectExt::set_property_generic: the statements of set_property, over a
\* value.
set_property_generic(type_, flds, hs, property_name, value) ==
    LET returned(st) == Written(IF st.panic THEN Err("abort") ELSE Ok(NoValue), st)
        validated(v) ==
            IF v.err # "ok" THEN Written(Err(v.err), Native("obj", flds, FALSE, << >>))
            ELSE returned(g_object_set_property(type_, Native("obj", flds, FALSE, << >>),
                                                hs, property_name, v.value, FALSE))
        found(pspec) ==
            IF pspec.name = "" THEN Written(Err("NotFound"), Native("obj", flds, FALSE, << >>))
            ELSE validated(validate_property_type(type_, FALSE, pspec, value))
    IN  found(find_property(type_, property_name))

\* The pairs written: fitting values, a value out of range for "level" and
\* for the lax "lax", a value of the wrong type, a construct-only property,
\* and a name that is no property.
SetPairs ==
    { Pair("name", Str("a")), Pair("level", Int32(1)), Pair("level", Int32(2)),
      Pair("lax", Int32(2)), Pair("level", Str("a")), Pair("id", Int32(1)),
      Pair("nope", Int32(1)) }

\* The pairs of a list: two that fit, one the validation refuses and one
\* whose name is no property.
ListPairs ==
    { Pair("name", Str("a")), Pair("level", Int32(1)), Pair("id", Int32(1)),
      Pair("nope", Int32(1)) }

SetLists == UNION {[1..n -> ListPairs] : n \in 0..MaxProps}

SetWritten(op, property_values, r) ==
    /\ inst # "none"
    /\ Running
    /\ fields' = r.st.fields
    /\ events' = r.st.events
    /\ last' = Op(op, inst, property_values, r.res)
    /\ UNCHANGED <<inst, handlers, next_id>>
    /\ UNCHANGED refVars
    /\ UNCHANGED extVars

SetProperties(property_values) ==
    SetWritten("set_properties", property_values,
               set_properties(inst, fields, handlers, property_values))

SetPropertiesGeneric(property_values) ==
    SetWritten("set_properties_generic", property_values,
               set_properties_generic(inst, fields, handlers, property_values))

SetPropertyGeneric(p) ==
    SetWritten("set_generic", <<p>>,
               set_property_generic(inst, fields, handlers, p.name, p.value))

SetPropertyOf(p) == Running /\ SetProperty(p.name, p.value)

(***************************************************************************)
(* SpecSet: a PropObject whose properties are written one at a time and   *)
(* several at a time, with handlers connected to its notify signal.       *)
(***************************************************************************)
NextSet ==
    \/ \E ps \in SetLists : SetProperties(ps)
    \/ \E ps \in SetLists : SetPropertiesGeneric(ps)
    \/ \E p \in SetPairs : SetPropertyOf(p)
    \/ \E p \in SetPairs : SetPropertyGeneric(p)
    \/ ConnectNotify(<< >>)

SpecSet == InitSignal /\ [][NextSet]_vars

(***************************************************************************)
(* Claims about references.                                                *)
(***************************************************************************)
RECURSIVE SumOwned(_)
SumOwned(S) ==
    IF S = {} THEN 0
    ELSE LET t == CHOOSE x \in S : TRUE IN owned[t] + SumOwned(S \ {t})

\* Owned references in existence: the handles the threads hold and the
\* references g_weak_ref_get has handed to an upgrade that has not returned.
OwnedTotal ==
    SumOwned(Threads) + Cardinality({t \in Threads : pc[t] = "got" /\ ptr[t] = "obj"})

\* C1: the instance is destroyed exactly once, and exactly when no owned
\* reference is left: never while one exists, never a second time.
C1_DestroyedOnceAtLastDrop ==
    /\ finalized <= 1
    /\ (finalized = 1) <=> (OwnedTotal = 0)

\* C1 witness: the instance was cloned MaxClones times, references were
\* dropped on a thread other than the creating one, and all are gone.
C1_Witness ==
    /\ nclones = MaxClones
    /\ OwnedTotal = 0
    /\ finalized = 1

\* C2: an upgrade never yields a destroyed instance: the pointer it holds and
\* the reference it returns keep the instance alive, it never trips the
\* assertion of from_glib_full, and an upgrade that started after the
\* destruction returns None.
C2_UpgradeNeverStale ==
    \A t \in Threads :
        /\ (pc[t] = "got" /\ ptr[t] = "obj") => (finalized = 0 /\ ref_count >= 1)
        /\ pc[t] # "panic"
        /\ (upg[t].late /\ pc[t] = "got") => ptr[t] = "null"
        /\ (upg[t].late /\ pc[t] = "idle") => upg[t].res = "None"
        /\ (upg[t].res = "Some" /\ owned[t] >= 1) => finalized = 0

\* C2 witness: one thread's upgrade returned Some and, later, after the final
\* drop, another upgrade returned None.
C2_Witness ==
    \E t, u \in Threads :
        /\ upg[t].res = "Some" /\ ~upg[t].late
        /\ upg[u].res = "None" /\ upg[u].late
        /\ finalized = 1

(***************************************************************************)
(* Claims about construction and properties.                               *)
(***************************************************************************)
IsNew == last.op \in {"new", "new_generic"}

\* The pair and the descriptor of the last set_property or get_property.
LastPair == last.props[1]
LastPSpec == find_property(inst, last.props[1].name)

\* A type Object::new cannot construct: no class can be retrieved for it, or
\* it is no Object, not instantiable, or abstract.
BadType(t) ==
    \/ ~is_a(t, "Object")
    \/ g_type_class_ref(t) = "null"
    \/ ~is_instantiatable(t)
    \/ is_abstract(t)

\* C3: Object::new and Object::new_generic on a type that is not an Object
\* subtype with a class, not instantiable, or abstract return an error, do
\* not panic or abort, and create no instance.
C3_BadTypeIsError ==
    (IsNew /\ BadType(last.type)) =>
        /\ last.res.err \notin {"ok", "abort"}
        /\ inst = "none"
        /\ events = << >>

\* C3 witness: Object::new_generic was called on the abstract type, whose
\* class exists, and returned the error for an abstract type.
C3_Witness ==
    /\ last.op = "new_generic"
    /\ last.type = "AbstractObject"
    /\ from_type(last.type) # "null"
    /\ last.res.err = "Abstract"
    /\ inst = "none"

\* The supplied pair does not pass the validation against type t.
PairFails(t, p) == validate_param(t, list_properties(t), p.name, p.value).err # "ok"

\* C4: when any supplied pair fails validation, Object::new returns an error
\* and nothing was allocated, set or constructed; an allocation happens only
\* after every supplied pair has passed validation.
C4_AllOrNothing ==
    IsNew =>
        /\ (\E i \in 1..Len(last.props) : PairFails(last.type, last.props[i])) =>
                /\ last.res.err \notin {"ok", "abort"}
                /\ inst = "none"
                /\ events = << >>
        /\ events # << >> =>
                /\ events[1].k = "alloc"
                /\ \A i \in 1..Len(last.props) : ~PairFails(last.type, last.props[i])

\* C4 witness: Object::new on an instantiable type with a valid pair followed
\* by an invalid one.
C4_Witness ==
    /\ last.op = "new"
    /\ last.type = "PropObject"
    /\ Len(last.props) = 2
    /\ ~PairFails(last.type, last.props[1])
    /\ PairFails(last.type, last.props[2])
    /\ last.res.err # "ok"

TypeRuleAccepts(pspec, value) ==
    \/ g_type_check_value_holds(value, pspec.value_type)
    \/ /\ pspec.value_type \in ObjectTypes
       /\ is_a(value.tag, "Object")
       /\ (value.s = Null \/ is_a(value.s, pspec.value_type))

\* C6: a set_property whose value the type rule does not let through fails
\* with TypeMismatch and does not call the setter.
C6_TypeRule ==
    (last.op = "set" /\ LastPSpec.name # "" /\ last.res.err # "NotWritable"
        /\ ~TypeRuleAccepts(LastPSpec, LastPair.value)) =>
        /\ last.res.err = "TypeMismatch"
        /\ events = << >>

\* C6 witness: an object value holding nothing was set on the int property
\* "level"; set_property returned Ok and the setter was called.
C6_Witness ==
    /\ last.op = "set"
    /\ LastPair = Pair("level", Obj("Object", Null))
    /\ last.res.err = "ok"
    /\ events # << >>
    /\ events[1] = Event("set", "level", 0)

\* The value passes the type test of the descriptor and the descriptor's
\* validation changes it.
Coerces(pspec, value) ==
    /\ validate_value_type(pspec, value).err = "ok"
    /\ g_param_value_validate(pspec, validate_value_type(pspec, value).value).changed

\* What the descriptor's validation makes of the value.
Coerced(pspec, value) ==
    g_param_value_validate(pspec, validate_value_type(pspec, value).value).value

\* C7: a set_property of a value the descriptor's validation changes, on a
\* property that may be written: without LAX_VALIDATION it fails with
\* ValidationFailed, the fields stay as they were and no setter runs; with
\* LAX_VALIDATION it succeeds and the field holds the changed value, which
\* is not the one supplied.
C7_LaxValidation ==
    [][ (/\ last'.op = "set"
         /\ find_property(inst, last'.props[1].name).name # ""
         /\ "WRITABLE" \in find_property(inst, last'.props[1].name).flags
         /\ "CONSTRUCT_ONLY" \notin find_property(inst, last'.props[1].name).flags
         /\ Coerces(find_property(inst, last'.props[1].name), last'.props[1].value))
        => IF "LAX_VALIDATION" \notin find_property(inst, last'.props[1].name).flags
           THEN /\ last'.res.err = "ValidationFailed"
                /\ fields' = fields
                /\ events' = << >>
           ELSE /\ last'.res.err = "ok"
                /\ fields'[last'.props[1].name].n
                      = Coerced(find_property(inst, last'.props[1].name),
                                last'.props[1].value).n
                /\ fields'[last'.props[1].name].n # last'.props[1].value.n
      ]_vars

\* C7 witness: the lax property was set to a value above its range and holds
\* the maximum.
C7_Witness ==
    /\ last.op = "set"
    /\ LastPair = Pair("lax", Int32(2))
    /\ last.res.err = "ok"
    /\ fields.lax.n = 1

\* C7 witness of the strict case: the same value on the property without
\* LAX_VALIDATION was rejected.
C7_WitnessStrict ==
    /\ last.op = "set"
    /\ LastPair = Pair("level", Int32(2))
    /\ last.res.err = "ValidationFailed"

\* Two values are equal: two object values hold the same object or both
\* nothing; any other two have the same type and the same data.
ValueEq(a, b) ==
    IF a.tag \in ObjectTypes /\ b.tag \in ObjectTypes THEN a.s = b.s ELSE a = b

\* C8: after a successful set_property of a value the descriptor's validation
\* leaves as it is, on a readable property, get_property returns a value
\* equal to the one set; the string property of a fresh instance reads as
\* unset.
C8_RoundTrip ==
    /\ (/\ last.op = "set"
        /\ last.res.err = "ok"
        /\ "READABLE" \in LastPSpec.flags
        /\ ~Coerces(LastPSpec, LastPair.value)) =>
            /\ get_property(inst, fields, LastPair.name).res.err = "ok"
            /\ ValueEq(get_property(inst, fields, LastPair.name).res.value,
                       LastPair.value)
    /\ (last.op = "new" /\ last.res.err = "ok" /\ last.type = "SimpleObject"
            /\ last.props = << >>) =>
            get_property(inst, fields, "name").res = Ok(Str(Null))

\* C8 witness: set_property of an object value holding nothing on the string
\* property "name" returned Ok, and the property reads as a string.
C8_Witness ==
    /\ last.op = "set"
    /\ LastPair = Pair("name", Obj("Object", Null))
    /\ last.res.err = "ok"
    /\ get_property(inst, fields, "name").res.value.tag = "String"

\* C9: get_property on a property that is not READABLE fails with
\* NotReadable and the getter is not called; on a READABLE property the
\* getter is called once and the value has the descriptor's value type.
C9_ReadabilityRule ==
    (last.op = "get" /\ LastPSpec.name # "") =>
        IF "READABLE" \notin LastPSpec.flags
        THEN /\ last.res.err = "NotReadable"
             /\ events = << >>
        ELSE /\ last.res.err = "ok"
             /\ events = <<Event("get", LastPair.name, 0)>>
             /\ value_type(last.res.value) = LastPSpec.value_type

\* C9 witness: get_property on the write-only property of a constructed
\* instance.
C9_Witness ==
    /\ inst = "PropObject"
    /\ last.op = "get"
    /\ LastPair.name = "id"
    /\ last.res.err = "NotReadable"

\* The number of calls of handler h with a descriptor in the last operation.
Calls(h) ==
    Cardinality({i \in 1..Len(events) : events[i].k = "notify" /\ events[i].h = h})

\* C10: after a successful set_property, and after a notify, of a property,
\* a handler connected with Some(name) was called once if name is that
\* property and not at all if it is not, a handler connected with None was
\* called once, and every call carried the descriptor of that property.
C10_NotifyHandlers ==
    (/\ last.op \in {"set", "notify"}
     /\ last.res.err = "ok"
     /\ LastPSpec.name # "") =>
        /\ \A j \in 1..Len(handlers) :
                Calls(handlers[j].id)
                    = IF handlers[j].closure \in {<< >>, <<LastPair.name>>}
                      THEN 1 ELSE 0
        /\ \A i \in 1..Len(events) :
                events[i].k = "notify" => events[i].name = LastPair.name
        /\ last.op = "set" => (events # << >> /\ events[1] = Event("set", LastPair.name, 0))

\* C10 witness: with a handler for every property and a handler for "name"
\* connected, "level" was set, and only the first was called.
C10_Witness ==
    /\ last.op = "set"
    /\ last.res.err = "ok"
    /\ LastPair.name = "level"
    /\ Len(handlers) = 2
    /\ handlers[1].closure = << >>
    /\ handlers[2].closure = <<"name">>
    /\ Calls(handlers[1].id) = 1
    /\ Calls(handlers[2].id) = 0

(***************************************************************************)
(* Claims about signals.                                                   *)
(***************************************************************************)
\* The last operation named a signal that neither the type nor an ancestor
\* has.
UnknownSignal(op) ==
    /\ op.op \in {"connect", "emit"}
    /\ Len(op.signal_name) = 1
    /\ \A i \in 1..Len(list_signals(op.type)) :
          list_signals(op.type)[i].name # op.signal_name[1]

\* The last operation named a property that neither the type nor an
\* ancestor has.
UnknownProperty(op) ==
    /\ op.op \in {"set", "get"}
    /\ \A i \in 1..Len(list_properties(op.type)) :
          list_properties(op.type)[i].name # op.props[1].name

\* C11: set_property, get_property, connect and emit with a name that the
\* type and its ancestors do not define return the NotFound error, call
\* nothing, connect no handler and leave every field as it was.
C11_UnknownNames ==
    [][(UnknownSignal(last') \/ UnknownProperty(last'))
          => /\ last'.res.err = "NotFound"
             /\ events' = << >>
             /\ handlers' = handlers
             /\ fields' = fields]_vars

\* An emission of an unknown signal was refused while handlers were
\* connected.
C11_Witness ==
    /\ last.op = "emit"
    /\ UnknownSignal(last)
    /\ last.res.err = "NotFound"
    /\ handlers # << >>

\* C12: a connect that succeeds returns an id that is not 0 and differs from
\* the id of every handler connected before it, whatever was blocked,
\* unblocked or disconnected in between; a connect that adds no handler
\* returns an error.
C12_ConnectIds ==
    [][last'.op = "connect"
          => /\ last'.res.err = "ok"
                   => /\ last'.res.value.n # 0
                      /\ \A i \in 1..Len(handlers) : handlers[i].id # last'.res.value.n
             /\ handlers' = handlers => last'.res.err # "ok"]_vars

\* A second handler was connected after the first was blocked and
\* disconnected.
C12_Witness ==
    /\ last.op = "connect"
    /\ last.res.err = "ok"
    /\ Len(handlers) = 2
    /\ ~handlers[1].connected
    /\ handlers[1].blocked > 0
    /\ handlers[2].id = last.res.value.n

\* The signal the last operation named, when the type has it.
LastSignal == g_signal_parse_name_for(last.signal_name, last.type).signal

\* C13: emit and emit_generic with fewer or more arguments than the signal
\* has parameters fail with ArityMismatch, and neither a connected handler
\* nor the class handler is called.
C13_ArityMismatch ==
    (/\ last.op = "emit"
     /\ g_signal_parse_name_for(last.signal_name, last.type).found
     /\ Len(last.props) # Len(LastSignal.arg_types))
        => /\ last.res.err = "ArityMismatch"
           /\ events = << >>

\* "change-name", which has a class handler, was emitted with two arguments
\* while a handler was connected to it.
C13_Witness ==
    /\ last.op = "emit"
    /\ last.signal_name = <<"change-name">>
    /\ Len(last.props) = 2
    /\ last.res.err = "ArityMismatch"
    /\ \E i \in 1..Len(handlers) : handlers[i].signal = "change-name"

\* "change-name" was emitted without arguments.
C13_WitnessFewer ==
    /\ last.op = "emit"
    /\ last.signal_name = <<"change-name">>
    /\ Len(last.props) = 0
    /\ last.res.err = "ArityMismatch"

\* An argument a parameter type admits: a value of exactly that type, an
\* object whose dynamic type is the parameter type or a subtype of it, or no
\* object where the parameter is an object type.
ArgFits(arg, param_type) ==
    \/ value_type(arg) = param_type
    \/ /\ is_a(value_type(arg), "Object")
       /\ IF arg.s = Null THEN is_a(param_type, "Object") ELSE is_a(arg.s, param_type)

\* The places of the arguments of the last emission that their parameter
\* types do not admit.
BadArgs == {i \in 1..Len(last.props) : ~ArgFits(last.props[i], LastSignal.arg_types[i])}

\* C14: emit accepts its arguments only when each has exactly the declared
\* type or is an object of the declared type or a subtype; else it fails
\* with ArgTypeMismatch, names the first argument that does not fit, and
\* calls no handler.
C14_ArgumentRule ==
    (/\ last.op = "emit"
     /\ g_signal_parse_name_for(last.signal_name, last.type).found
     /\ Len(last.props) = Len(LastSignal.arg_types))
        => IF BadArgs = {}
           THEN last.res.err # "ArgTypeMismatch"
           ELSE /\ last.res.err = "ArgTypeMismatch"
                /\ \A i \in BadArgs : last.res.value.n + 1 <= i
                /\ last.res.value.n + 1 \in BadArgs
                /\ events = << >>

\* "name-changed", whose parameter is a string, was emitted with an object
\* value that holds no object, and a connected handler was called.
C14_Witness ==
    /\ last.op = "emit"
    /\ last.signal_name = <<"name-changed">>
    /\ last.props = <<Obj("Object", Null)>>
    /\ last.res.err = "ok"
    /\ events # << >>

\* The place in handlers of the handler with an id.
HandlerPos(id) == CHOOSE i \in 1..Len(handlers) : handlers[i].id = id

\* The places in events of the calls of connected handlers, and of the
\* class handler.
CallEvents == {k \in 1..Len(events) : events[k].k = "call"}

ClassEvents == {k \in 1..Len(events) : events[k].k = "class"}

\* The calls of the last emission are in order: every handler connected to
\* the signal and not blocked is called exactly once; handlers connected
\* with the same after run in the order they were connected; for a RUN_LAST
\* signal those with after false run before the class handler and those
\* with after true after it; for a RUN_FIRST signal the class handler runs
\* before every connected handler.
DispatchOrdered ==
    (/\ last.op = "emit"
     /\ last.res.err = "ok"
     /\ LastSignal.name \in {"change-name", "adopt"})
        => /\ \A i \in 1..Len(handlers) :
                 Cardinality({k \in CallEvents : events[k].h = handlers[i].id})
                     = IF /\ handlers[i].signal = LastSignal.name
                          /\ handlers[i].connected
                          /\ handlers[i].blocked = 0
                       THEN 1 ELSE 0
           /\ \A k \in CallEvents, l \in CallEvents :
                 (/\ k < l
                  /\ handlers[HandlerPos(events[k].h)].after
                        = handlers[HandlerPos(events[l].h)].after)
                    => HandlerPos(events[k].h) < HandlerPos(events[l].h)
           /\ Cardinality(ClassEvents) = 1
           /\ \A c \in ClassEvents, k \in CallEvents :
                 IF "RUN_FIRST" \in LastSignal.flags THEN c < k
                 ELSE handlers[HandlerPos(events[k].h)].after <=> c < k

\* C15: a handler is connected with the after it was requested with, and
\* every emission makes its calls in order: connection order among handlers
\* of the same after, after false before and after true after the class
\* handler of a RUN_LAST signal, the class handler of a RUN_FIRST signal
\* before all, and each handler that is not blocked exactly once.
C15_DispatchOrder ==
    [][/\ (last'.op = "connect" /\ last'.res.err = "ok")
             => handlers'[Len(handlers')].after = (last'.props[1].n = 1)
       /\ DispatchOrdered']_vars

\* "change-name", a RUN_LAST signal, was emitted with a handler connected
\* with after true and then one with after false: the second ran first,
\* then the class handler, then the first.
C15_Witness ==
    /\ last.op = "emit"
    /\ last.res.err = "ok"
    /\ Len(handlers) = 2
    /\ handlers[1].after /\ ~handlers[2].after
    /\ events = <<Event("call", "change-name", handlers[2].id),
                  Event("class", "change-name", 0),
                  Event("call", "change-name", handlers[1].id)>>

\* Two handlers connected alike were both called, in the order they were
\* connected.
C15_WitnessOrder ==
    /\ last.op = "emit"
    /\ Len(handlers) = 2
    /\ events = <<Event("call", "change-name", handlers[1].id),
                  Event("call", "change-name", handlers[2].id),
                  Event("class", "change-name", 0)>>

\* "adopt", a RUN_FIRST signal, was emitted: the class handler ran before
\* the handler connected with after false.
C15_WitnessFirst ==
    /\ last.op = "emit"
    /\ Len(handlers) = 1
    /\ ~handlers[1].after
    /\ events = <<Event("class", "adopt", 0), Event("call", "adopt", handlers[1].id)>>

\* The handler the last block_signal, unblock_signal or disconnect named is
\* at place i and has not been disconnected.
Named(i) ==
    /\ last'.op \in {"block", "unblock", "disconnect"}
    /\ handlers[i].id = last'.props[1].n
    /\ handlers[i].connected

\* The handlers an emission of the signal is to call: connected to it and
\* with no block left.
Participating(hs, signal) ==
    {hs[i].id : i \in {j \in 1..Len(hs) : /\ hs[j].signal = signal
                                          /\ hs[j].connected
                                          /\ hs[j].blocked = 0}}

\* The emission called the handlers that take part, and no other.
CalledParticipating ==
    (last.op = "emit" /\ last.res.err = "ok")
        => {events[k].h : k \in CallEvents} = Participating(handlers, LastSignal.name)

C16_WitnessEmit ==
    /\ last.op = "emit"
    /\ Len(handlers) = 2
    /\ handlers[1].blocked > 0
    /\ handlers[1].signal = "change-name" /\ handlers[2].signal = "change-name"
    /\ {events[k].h : k \in CallEvents} = {handlers[2].id}

\* The last block_signal, unblock_signal or disconnect named a handler that
\* had been disconnected before.
NamedDisconnected ==
    /\ last'.op \in {"block", "unblock", "disconnect"}
    /\ \E i \in 1..Len(handlers) :
          handlers[i].id = last'.props[1].n /\ ~handlers[i].connected

\* Disconnecting takes the handler out for good: disconnect leaves it
\* disconnected and the others as they were; a disconnected handler is
\* never changed again, by block_signal, unblock_signal or anything else;
\* and no emission calls it.
DisconnectedForGood ==
    /\ \A i \in 1..Len(handlers) :
          (Named(i) /\ last'.op = "disconnect")
             => handlers' = [handlers EXCEPT ![i].connected = FALSE]
    /\ \A i \in 1..Len(handlers) :
          ~handlers[i].connected => handlers'[i] = handlers[i]
    /\ \A k \in 1..Len(events') :
          events'[k].k = "call" =>
             \E i \in 1..Len(handlers') :
                handlers'[i].id = events'[k].h /\ handlers'[i].connected

C17_WitnessStale ==
    /\ last.op = "block"
    /\ \E i \in 1..Len(handlers) :
          handlers[i].id = last.props[1].n /\ ~handlers[i].connected

\* What the handler of a call of the last emission returned: the callback's
\* value for a connected handler, true for the class handler of "claimed".
ReturnedTrue(ev) ==
    IF ev.k = "class" THEN TRUE
    ELSE handlers[HandlerPos(ev.h)].callback.ret = Boolean(TRUE)

\* C18: in an emission of a signal with an accumulator, no handler, connected
\* or class, is called after one whose return value made the accumulator
\* stop; the result of the emission is the value accumulated up to there;
\* and while the accumulator does not stop every handler is called.
C18_AccumulatorStops ==
    (/\ last.op = "emit"
     /\ last.res.err = "ok"
     /\ LastSignal.name \in {"handled", "claimed"})
        => /\ \A k \in 1..Len(events) : k < Len(events) => ~ReturnedTrue(events[k])
           /\ last.res.value
                 = Boolean(events # << >> /\ ReturnedTrue(events[Len(events)]))
           /\ (events = << >> \/ ~ReturnedTrue(events[Len(events)]))
                 => /\ {events[k].h : k \in CallEvents}
                          = Participating(handlers, LastSignal.name)
                    /\ LastSignal.name # "claimed"

\* "handled" was emitted with a handler that returns true connected before
\* one that returns false: the first was called, the second was not, and
\* the result is true.
C18_Witness ==
    /\ last.op = "emit"
    /\ last.signal_name = <<"handled">>
    /\ Len(handlers) = 2
    /\ handlers[1].signal = "handled" /\ handlers[2].signal = "handled"
    /\ handlers[1].after = handlers[2].after
    /\ handlers[1].callback.ret = Boolean(TRUE)
    /\ events = <<Event("call", "handled", handlers[1].id)>>
    /\ last.res = Ok(Boolean(TRUE))

\* "claimed" was emitted with a handler that returns true: the class handler
\* was not called.
C18_WitnessClass ==
    /\ last.op = "emit"
    /\ last.signal_name = <<"claimed">>
    /\ Len(events) = 1
    /\ events[1].k = "call"
    /\ last.res = Ok(Boolean(TRUE))

\* "claimed" was emitted with a handler that returns false: the class
\* handler ran after it and the result is what the class handler returned.
C18_WitnessCombined ==
    /\ last.op = "emit"
    /\ last.signal_name = <<"claimed">>
    /\ Len(events) = 2
    /\ events[1].k = "call" /\ events[2].k = "class"
    /\ last.res = Ok(Boolean(TRUE))

\* A return value a signal's return type admits: nothing for a signal that
\* returns nothing; else a value of exactly the return type, an object whose
\* dynamic type is the return type or a subtype of it, or no object where
\* the return type is an object type.
ReturnFits(ret, return_type) ==
    IF return_type = "Unit" THEN ret = NoValue
    ELSE /\ ret # NoValue
         /\ ArgFits(ret, return_type)

\* The calls of the last emission whose callback returned what the return
\* type of its signal does not admit.
BadReturns ==
    {k \in CallEvents :
        ~ReturnFits(handlers[HandlerPos(events[k].h)].callback.ret,
                    find_signal(list_signals(last.type), events[k].name).ret_type)}

\* C19: an emission in which a connected handler returns a value for a
\* signal that returns nothing, returns nothing for a signal that returns a
\* value, or returns a value that is neither of the return type nor an
\* object of a subtype, panics; emit returns neither Ok nor Err.
C19_ReturnShape ==
    (last.op = "emit" /\ BadReturns # {}) => last.res.err = "panic"

\* A handler of "change-name", which returns a string, returned an object
\* value that holds no object, and emit returned Ok.
C19_Witness ==
    /\ last.op = "emit"
    /\ last.signal_name = <<"change-name">>
    /\ last.res.err = "ok"
    /\ \E k \in CallEvents :
          handlers[HandlerPos(events[k].h)].callback.ret = Obj("Object", Null)

\* The callback of the handler of a call stops the emission.
Stops(ev) == ev.k = "call" /\ handlers[HandlerPos(ev.h)].callback.stop

\* In the last emission nothing was called after a handler that stopped the
\* emission; a stopping handler that was called cut off no handler connected
\* before it; and without one every handler that takes part and the class
\* handler were called.
StopCuts ==
    (last.op = "emit" /\ last.res.err = "ok")
        => /\ \A k \in 1..Len(events) : k < Len(events) => ~Stops(events[k])
           /\ IF events # << >> /\ Stops(events[Len(events)])
              THEN \A i \in 1..Len(handlers) :
                      (/\ handlers[i].id \in Participating(handlers, LastSignal.name)
                       /\ i < HandlerPos(events[Len(events)].h))
                         => \E k \in CallEvents : events[k].h = handlers[i].id
              ELSE /\ {events[k].h : k \in CallEvents}
                         = Participating(handlers, LastSignal.name)
                   /\ ClassEvents # {}

\* C20: stop_signal_emission called by a handler keeps every handler that
\* has not run yet in that emission from being called, the class handler
\* included, and does nothing to a later emission: every emission, whatever
\* was stopped before it, calls the handlers that take part from the first
\* on, and an emission repeated with the same handlers makes the same calls.
C20_StopEmission ==
    [][/\ StopCuts'
       /\ (/\ last.op = "emit" /\ last'.op = "emit"
           /\ last.res.err = "ok" /\ last'.res.err = "ok")
             => events' = events]_vars

\* Of two handlers the first stopped the emission: the second and the class
\* handler were not called.
C20_Witness ==
    /\ last.op = "emit"
    /\ Len(handlers) = 2
    /\ Participating(handlers, "change-name") = {handlers[1].id, handlers[2].id}
    /\ handlers[1].callback.stop
    /\ events = <<Event("call", "change-name", handlers[1].id)>>

\* With the stopping handler blocked, an emission called the second handler
\* and the class handler.
C20_WitnessLater ==
    /\ last.op = "emit"
    /\ Len(handlers) = 2
    /\ handlers[1].callback.stop
    /\ handlers[1].blocked > 0
    /\ events = <<Event("call", "change-name", handlers[2].id),
                  Event("class", "change-name", 0)>>

(***************************************************************************)
(* Claims about weak handles (SpecWeak).                                   *)
(***************************************************************************)
\* The thread and the handle of the operation a step has just made.
WeakStep(ops) == nops' = nops + 1 /\ last'.op \in ops

ByThread == last'.props[1].value.n

OnHandle == last'.props[2].value.n

\* C21: a SendWeakRef made from a WeakRef on thread A, and every clone of it
\* whatever thread made the clone, panics when it is upgraded or unwrapped
\* with into_weak_ref on a thread other than A, and on A behaves as the
\* WeakRef inside; clone and drop panic on no thread; a SendWeakRef made
\* with new() is bound to no thread and is dereferenced on any.
C21_ThreadConfined ==
    [][/\ WeakStep({"send_from"}) => bound'[OnHandle] = ByThread
       /\ WeakStep({"send_new"}) => bound'[OnHandle] = 0
       /\ WeakStep({"clone"}) =>
             /\ bound'[cloning'[ByThread]] = bound[OnHandle]
             /\ last'.res.err = "ok"
             /\ pc'[ByThread] # "panic"
       /\ \A t \in Threads : (pc[t] = "cloning" /\ pc'[t] # "cloning") =>
             pc'[t] = "idle" /\ bound'[cloning[t]] = bound[cloning[t]]
       /\ WeakStep({"drop"}) => last'.res.err = "ok" /\ pc' = pc
       /\ (WeakStep({"upgrade", "into_weak_ref"}) /\ bound[OnHandle] # -1) =>
             /\ (last'.res.err = "panic") <=> (bound[OnHandle] \notin {0, ByThread})
             /\ (pc'[ByThread] = "panic") <=> (bound[OnHandle] \notin {0, ByThread})
       /\ (WeakStep({"upgrade"}) /\ bound[OnHandle] \in {0, ByThread}) =>
             /\ upg'[ByThread].res = (IF weak[OnHandle] = "obj" THEN "Some" ELSE "None")
             /\ owned'[ByThread] = owned[ByThread] + (IF weak[OnHandle] = "obj" THEN 1 ELSE 0)
       /\ (WeakStep({"into_weak_ref"}) /\ bound[OnHandle] \in {0, ByThread}) =>
             weak' = weak /\ bound'[OnHandle] = -1
      ]_vars

\* The second handle made, bound to thread 1, has just panicked on its
\* upgrade on thread 2.
C21_Witness ==
    /\ last.op = "upgrade"
    /\ last.res.err = "panic"
    /\ last.props[1].value.n = 2
    /\ bound[last.props[2].value.n] = 1
    /\ last.props[2].value.n = 2
    /\ pc[2] = "panic"

\* A handle bound to thread 1 has been upgraded there to the object.
C21_WitnessHome ==
    /\ last.op = "upgrade"
    /\ last.res.err = "ok"
    /\ last.props[1].value.n = 1
    /\ bound[last.props[2].value.n] = 1
    /\ upg[1].res = "Some"

\* An empty SendWeakRef made by new() on thread 1 has been upgraded on
\* thread 2, to None.
C21_WitnessUnbound ==
    /\ last.op = "upgrade"
    /\ last.res.err = "ok"
    /\ last.props[1].value.n = 2
    /\ bound[last.props[2].value.n] = 0
    /\ upg[2].res = "None"

\* The owned references in existence under SpecWeak: those the threads hold
\* and those a clone that has not returned holds.
WeakOwnedTotal ==
    SumOwned(Threads) + Cardinality({t \in Threads : pc[t] = "cloning" /\ ptr[t] = "obj"})

\* The threads whose clone returns in this step.
CloneReturns(t) == pc[t] = "cloning" /\ pc'[t] = "idle"

\* C30: the clone of a WeakRef is a weak handle of its own to the same
\* target: made of a live target it upgrades to the object, made of a
\* destroyed target or of an empty handle it is empty; the owned reference
\* the clone takes is released before it returns, so the count is what it
\* was and no reference outlives the clone; dropping one handle leaves the
\* other as it is.
C30_CloneIndependent ==
    [][/\ WeakStep({"clone"}) =>
             /\ ptr'[ByThread] = (IF weak[OnHandle] = "obj" THEN "obj" ELSE "null")
             /\ ref_count' = ref_count + (IF weak[OnHandle] = "obj" THEN 1 ELSE 0)
             /\ weak'[OnHandle] = weak[OnHandle]
       /\ \A t \in Threads : CloneReturns(t) =>
             /\ ref_count' = ref_count - (IF ptr[t] = "obj" THEN 1 ELSE 0)
             /\ weak'[cloning[t]] =
                   (IF ptr[t] = "obj" /\ finalized' = finalized THEN "obj" ELSE "null")
             /\ finalized' = finalized =>
                   \A v \in WeakIds \ {cloning[t]} : weak'[v] = weak[v]
       /\ WeakStep({"drop"}) =>
             /\ \A v \in WeakIds \ {OnHandle} : weak'[v] = weak[v]
             /\ ref_count' = ref_count /\ finalized' = finalized
       /\ WeakStep({"upgrade"}) /\ last'.res.err = "ok" =>
             upg'[ByThread].res = (IF weak[OnHandle] = "obj" THEN "Some" ELSE "None")
       /\ (finalized' = 0 => ref_count' = WeakOwnedTotal')
       /\ (\A w \in WeakIds : weak'[w] = "obj" => finalized' = 0)
      ]_vars

\* A clone of a live handle has returned, the original was then dropped,
\* and the clone has upgraded to the object.
C30_Witness ==
    /\ last.op = "upgrade"
    /\ last.res.err = "ok"
    /\ upg[last.props[1].value.n].res = "Some"
    /\ last.props[2].value.n = 2
    /\ weak[1] = "unset"
    /\ nclones = 2
    /\ nops = 4
    /\ bound[2] = -1

\* A clone made of a handle whose target was destroyed has returned empty.
C30_WitnessDead ==
    /\ last.op = "cloned"
    /\ finalized = 1
    /\ weak[1] = "null"
    /\ weak[2] = "null"
    /\ nclones = 2

(***************************************************************************)
(* Claims about floating references (SpecFloat).                           *)
(***************************************************************************)
\* Object::new returns an instance in this step.
NewReturns == pc[1] = "new" /\ pc'[1] = "idle"

\* from_glib_none, which sinks, acts in this step: in Object::new on a
\* subtype of InitiallyUnowned, or on the pointer of the instance.
SinkStep ==
    \/ NewReturns /\ is_a(inst, "InitiallyUnowned")
    \/ /\ last'.op = "from_glib_none"
       /\ nclones' = nclones
       /\ \E t \in Threads : owned' = [owned EXCEPT ![t] = @ + 1]

C23_NewReturnsOwned ==
    [][NewReturns =>
          /\ ~floating'
          /\ ref_count' = 1
          /\ ref_count' = ref_count
          /\ owned'[1] = 1
          /\ floating <=> is_a(inst, "InitiallyUnowned")
      ]_vars

\* C23 as stated: for a subtype of InitiallyUnowned the reference
\* Object::new returns is floating.
C23_NewReturnsFloating ==
    [][(NewReturns /\ is_a(inst, "InitiallyUnowned")) => floating']_vars

\* Object::new has just returned an InitiallyUnowned: one owned reference,
\* not floating.
C23_Witness ==
    /\ last.op = "new"
    /\ last.res.err = "ok"
    /\ inst = "InitiallyUnowned"
    /\ pc[1] = "idle"
    /\ ref_count = 1
    /\ owned[1] = 1
    /\ ~floating

\* Object::new has just returned an instance of an ordinary type.
C23_WitnessOrdinary ==
    /\ last.op = "new"
    /\ last.res.err = "ok"
    /\ inst = "SimpleObject"
    /\ ref_count = 1
    /\ owned[1] = 1
    /\ ~floating

(***************************************************************************)
(* Claims about casts (SpecCast).                                          *)
(***************************************************************************)
CastOps == {"downcast", "downcast_ref", "dynamic_cast", "dynamic_cast_ref"}

\* A cast is made in this step.
CastStep == last'.op \in CastOps /\ nclones' = nclones

\* The ancestors of a type and the interfaces it implements.
Supertypes(A) == type_ancestors(A) \cup UNION {type_interfaces(a) : a \in type_ancestors(A)}

\* C24: a type is_a each of its ancestors and of the interfaces it
\* implements, and none of those is_a the type unless it is the type; a
\* checked cast (downcast, downcast_ref, dynamic_cast, dynamic_cast_ref)
\* succeeds exactly when the instance's dynamic type is_a the target, and
\* otherwise hands back Err(self) or None: the same wrapper of the same
\* instance with the same reference count, without a panic.
C24_CheckedCasts ==
    [][/\ \A A \in Types \ {"Invalid"} : \A B \in Supertypes(A) :
             is_a(A, B) /\ (is_a(B, A) => A = B)
       /\ CastStep =>
             /\ (last'.res.err = "ok") <=> (last'.type \in Supertypes(inst))
             /\ last'.res.err \in {"ok", "CastFailed"}
             /\ last'.res.err = "ok" => last'.res.value.tag = last'.type
             /\ last'.res.err # "ok" =>
                   /\ last'.res.value.tag = wrapper
                   /\ wrapper' = wrapper
             /\ (last'.res.err = "ok" /\ last'.op \in {"downcast", "dynamic_cast"}) =>
                   wrapper' = last'.type
             /\ last'.op \in {"downcast_ref", "dynamic_cast_ref"} => wrapper' = wrapper
             /\ inst' = inst
             /\ ref_count' = ref_count
             /\ owned' = owned
             /\ finalized' = finalized
             /\ fields' = fields
      ]_vars

\* A dynamic_cast of a SimpleObject instance to PropObject has failed and
\* handed the wrapper back, with two references to the instance as before.
C24_Witness ==
    /\ inst = "SimpleObject"
    /\ last.op = "dynamic_cast"
    /\ last.type = "PropObject"
    /\ last.res.err = "CastFailed"
    /\ wrapper = "DummyInterface"
    /\ ref_count = 2

\* A downcast of an Object wrapper of a PropObject instance to SimpleObject
\* has succeeded.
C24_WitnessDown ==
    /\ inst = "PropObject"
    /\ last.op = "downcast"
    /\ last.type = "SimpleObject"
    /\ last.props[1].value.tag = "Object"
    /\ last.res.err = "ok"
    /\ wrapper = "SimpleObject"

(***************************************************************************)
(* Claims about bindings (SpecBind).                                       *)
(***************************************************************************)
\* The value the last call was given.
BindArg == last'.props[1].value.s

\* What a transform function makes of a value, where it returns one.
Through(f, value, old) ==
    IF f = "none" THEN value
    ELSE IF func_call(f, value) = Null THEN old
    ELSE func_call(f, value)

\* C25: describing a binding (bind_property, flags, transform_to,
\* transform_from) changes neither object, and until build() a change of
\* one property leaves the other alone; once build() has returned a
\* Binding, every set of the source property sets the target property to
\* what transform_to makes of the value (the value itself without a
\* transform), and for a bidirectional binding every set of the target
\* property sets the source through transform_from; build() returns None,
\* and nothing is synchronized afterwards, when the native bind rejects the
\* pair of properties.
C25_BindingSynchronizes ==
    [][/\ last'.op \in {"bind_property", "flags", "transform_to", "transform_from", "build"} =>
             /\ binding'.source = binding.source
             /\ binding'.target = binding.target
       /\ last'.op # "build" => binding'.stage = 
             (IF last'.op = "bind_property" THEN "builder" ELSE binding.stage)
       /\ last'.op = "build" =>
             binding'.stage =
                (IF binding.source_property = "name" /\ binding.target_property = "name"
                 THEN "built" ELSE "rejected")
       /\ (last'.op = "set_source" /\ binding.stage # "built") =>
             binding'.source = BindArg /\ binding'.target = binding.target
       /\ (last'.op = "set_target" /\ binding.stage # "built") =>
             binding'.target = BindArg /\ binding'.source = binding.source
       /\ (last'.op = "set_source" /\ binding.stage = "built") =>
             /\ binding'.source = BindArg
             /\ binding'.target = Through(binding.transform_to, BindArg, binding.target)
       /\ (last'.op = "set_target" /\ binding.stage = "built") =>
             /\ binding'.target = BindArg
             /\ binding'.source =
                   (IF binding.bidirectional
                    THEN Through(binding.transform_from, BindArg, binding.source)
                    ELSE binding.source)
      ]_vars

\* A built binding with a transform_to has just carried a new source value
\* to the target, transformed.
C25_Witness ==
    /\ binding.stage = "built"
    /\ binding.transform_to = "next"
    /\ last.op = "set_source"
    /\ binding.source = "b"
    /\ binding.target = "c"

\* A bidirectional binding has carried a target value back to the source.
C25_WitnessBack ==
    /\ binding.stage = "built"
    /\ binding.bidirectional
    /\ binding.transform_from = "next"
    /\ last.op = "set_target"
    /\ binding.target = "a"
    /\ binding.source = "b"

\* build() returned None and a later set of the source left the target.
C25_WitnessRejected ==
    /\ binding.stage = "rejected"
    /\ last.op = "set_source"
    /\ binding.source = "c"
    /\ binding.target = "a"

(***************************************************************************)
(* Claims about construction hooks (SpecProp).                             *)
(***************************************************************************)
\* The places in the log of the last call where an event of kind k is.
Positions(k) == {i \in DOMAIN events : events[i].k = k}

\* The places where a construction-time property is set.
ConstructSets ==
    {i \in Positions("set") :
        "CONSTRUCT_ONLY" \in find_property(last.type, events[i].name).flags}

\* C26: a successful Object::new of a subclass calls constructed() exactly
\* once: after the instance is allocated and its construction-time
\* properties are set, before new returns, and with the parent class's
\* constructed called first; the flag constructed() sets is read as true
\* through get_property on the object new returned.  A type without the
\* hook, and a construction that fails, call it not at all.
C26_ConstructedOnce ==
    /\ (last.op \in {"new", "new_generic"} /\ last.res.err = "ok"
            /\ is_a(last.type, "SimpleObject")) =>
          /\ Cardinality(Positions("constructed")) = 1
          /\ \A c \in Positions("constructed") :
                /\ c > 1 /\ events[c - 1].k = "parent_constructed"
                /\ \A a \in Positions("alloc") : a < c
                /\ \A i \in ConstructSets : i < c
          /\ Cardinality(Positions("parent_constructed")) = 1
          /\ fields.constructed.n = 1
          /\ get_property(inst, fields, "constructed").res = Ok(Boolean(TRUE))
    /\ (last.op \in {"new", "new_generic"}
            /\ (last.res.err \notin {"ok", "abort"} \/ ~is_a(last.type, "SimpleObject"))) =>
          Positions("constructed") = {}
    /\ (inst # "none" /\ is_a(inst, "SimpleObject")) => fields.constructed.n = 1
    /\ (last.op = "get" /\ last.props[1].name = "constructed" /\ is_a(inst, "SimpleObject")) =>
          last.res = Ok(Boolean(TRUE))

\* A PropObject was constructed with its construct-only property "id"
\* supplied: the property was set, then constructed() ran, once.
C26_Witness ==
    /\ last.op = "new"
    /\ last.res.err = "ok"
    /\ inst = "PropObject"
    /\ ConstructSets # {}
    /\ Cardinality(Positions("constructed")) = 1
    /\ fields.constructed.n = 1

\* The flag was read through get_property on a constructed SimpleObject.
C26_WitnessGet ==
    /\ inst = "SimpleObject"
    /\ last.op = "get"
    /\ last.props[1].name = "constructed"
    /\ last.res = Ok(Boolean(TRUE))

(***************************************************************************)
(* Claims about nested emissions (SpecReenter).                            *)
(***************************************************************************)
\* The places in the log of the call that has just returned where handlers
\* of the signal were called.
CallsOf(signal) == {k \in 1..Len(events') : events'[k].k = "call" /\ events'[k].name = signal}

\* The connected handlers of a signal, by their place in handlers.
Connections(signal, after) ==
    {i \in 1..Len(handlers) : /\ handlers[i].signal = signal
                              /\ handlers[i].connected
                              /\ handlers[i].blocked = 0
                              /\ handlers[i].after = after}

\* The nested emission of "name-changed": every connected handler of it is
\* called once, the calls are next to each other, and they begin at from.
NestedComplete(from) ==
    /\ CallsOf("name-changed") = from..(from + Cardinality(CallsOf("name-changed")) - 1)
    /\ \A i \in Connections("name-changed", TRUE) \cup Connections("name-changed", FALSE) :
          Cardinality({k \in CallsOf("name-changed") : events'[k].h = handlers[i].id}) = 1
    /\ \A k \in CallsOf("name-changed") : \E i \in 1..Len(handlers) :
          handlers[i].id = events'[k].h /\ handlers[i].signal = "name-changed"

\* C27: an emission made by a handler runs inside the emission that called
\* the handler: emitting "change-name" calls its class handler, which stores
\* the new name and emits "name-changed"; every handler of "name-changed"
\* has run before anything else of the outer emission does, the outer
\* emission then calls its remaining handlers and returns the value of its
\* last handler, the old name when that is the class handler.  The setter
\* of "name" emits "name-changed" in the same way before set_property
\* returns.
C27_NestedEmission ==
    [][/\ (last'.op = "emit" /\ last'.res.err = "ok") =>
             /\ \E c \in 1..Len(events') :
                   /\ events'[c] = Event("class", "change-name", 0)
                   /\ \A k \in 1..Len(events') : events'[k].k = "class" => k = c
                   /\ NestedComplete(c + 1)
                   /\ \A k \in CallsOf("change-name") :
                         handlers[HandlerPos(events'[k].h)].after <=> k > c
             /\ \A i \in Connections("change-name", TRUE) \cup Connections("change-name", FALSE) :
                   \E k \in CallsOf("change-name") : events'[k].h = handlers[i].id
             /\ fields'.name.s = last'.props[1].s
             /\ last'.res.value =
                   (IF Connections("change-name", TRUE) = {} THEN Str(fields.name.s)
                    ELSE Str("c"))
       /\ (last'.op = "set" /\ last'.res.err = "ok") =>
             /\ events'[1] = Event("set", "name", 0)
             /\ events'[2] = Event("emit", "name-changed", 0)
             /\ NestedComplete(3)
             /\ fields'.name.s = last'.props[1].value.s
      ]_vars

\* "change-name" was emitted with "b" on an instance named "a" with a
\* handler of "name-changed" connected: the handler ran inside the class
\* handler, and emit returned the old name.
C27_Witness ==
    /\ last.op = "emit"
    /\ last.props = <<Str("b")>>
    /\ last.res = Ok(Str("a"))
    /\ fields.name.s = "b"
    /\ Len(handlers) >= 1
    /\ handlers[1].signal = "name-changed"
    /\ events = <<Event("class", "change-name", 0),
                  Event("call", "name-changed", handlers[1].id)>>

\* The outer emission went on after the nested one: a handler connected
\* after the class handler ran last and its value was returned.
C27_WitnessOuter ==
    /\ last.op = "emit"
    /\ last.res = Ok(Str("c"))
    /\ Len(handlers) = 2
    /\ events = <<Event("class", "change-name", 0),
                  Event("call", "name-changed", handlers[1].id),
                  Event("call", "change-name", handlers[2].id)>>

(***************************************************************************)
(* Claims about arguments that hold no object (SpecSignal).                *)
(***************************************************************************)
\* The places of the arguments of the last emission that are object values
\* holding no object, given for a parameter of an object type.
NoneArgs ==
    {i \in 1..Len(last.props) :
        /\ is_a(value_type(last.props[i]), "Object")
        /\ last.props[i].s = Null
        /\ is_a(LastSignal.arg_types[i], "Object")}

\* C28: in emit, an argument of an object type that holds no object passes
\* for every parameter of an object type, whatever the type of the value:
\* it is never the argument ArgTypeMismatch names, and the value handed on
\* has the declared parameter type and still holds no object.
C28_NoneArgumentFits ==
    (/\ last.op = "emit"
     /\ g_signal_parse_name_for(last.signal_name, last.type).found
     /\ Len(last.props) = Len(LastSignal.arg_types))
        => \A i \in NoneArgs :
              /\ ~(last.res.err = "ArgTypeMismatch" /\ last.res.value.n + 1 = i)
              /\ validate_signal_argument(last.props[i], LastSignal.arg_types[i])
                    = Ok(Obj(LastSignal.arg_types[i], Null))
              /\ last.res.err # "ArgTypeMismatch" =>
                    validate_signal_arguments(last.type, last.signal_name,
                                              last.props).args[i]
                       = Obj(LastSignal.arg_types[i], Null)

\* "adopt", whose first parameter is a SimpleObject, was emitted with an
\* Object-typed value that holds no object: the emission went through and
\* the class handler was called.
C28_Witness ==
    /\ last.op = "emit"
    /\ last.signal_name = <<"adopt">>
    /\ last.props = <<Obj("Object", Null), Int32(1)>>
    /\ last.res.err = "ok"
    /\ events # << >>
    /\ events[1] = Event("class", "adopt", 0)

\* The operations that write properties of an existing object.
SetOps == {"set", "set_generic", "set_properties", "set_properties_generic"}

\* The pair fails validation: its name is no property of the type, or its
\* value is refused for the property.
SetPairFails(t, p) ==
    \/ find_property(t, p.name).name = ""
    \/ validate_property_type(t, FALSE, find_property(t, p.name), p.value).err # "ok"

\* The names of the properties the native setter was called for, in order.
WrittenNames(evs) ==
    LET sets == SelectSeq(evs, LAMBDA e : e.k = "set")
    IN  [i \in 1..Len(sets) |-> sets[i].name]

\* C29: a write that returns an error changed no property value and ran no
\* notification or setter hook; set_properties and set_properties_generic
\* fail, writing nothing, when any of their pairs fails validation, and on
\* success write the pairs in the order given.
C29_FailedWriteChangesNothing ==
    [][ last'.op \in SetOps =>
            /\ last'.res.err \notin {"ok", "abort"} =>
                    /\ fields' = fields
                    /\ events' = << >>
            /\ last'.op \in {"set_properties", "set_properties_generic"} =>
                    /\ (\E i \in 1..Len(last'.props) : SetPairFails(inst, last'.props[i])) =>
                            /\ last'.res.err \notin {"ok", "abort"}
                            /\ fields' = fields
                            /\ events' = << >>
                    /\ last'.res.err = "ok" =>
                            WrittenNames(events')
                                = [i \in 1..Len(last'.props) |-> last'.props[i].name]
      ]_vars

\* C29 witness: set_properties was given a fitting pair for "level" followed
\* by a pair for the construct-only "id"; it returned the error, "level" was
\* not written and nothing ran.
C29_Witness ==
    /\ last.op = "set_properties"
    /\ last.props = <<Pair("level", Int32(1)), Pair("id", Int32(1))>>
    /\ last.res.err = "NotWritable"
    /\ fields.level.n = 0
    /\ events = << >>

\* C29 witness: set_properties_generic wrote "name" and then "level", with a
\* notify handler connected.
C29_WitnessOrder ==
    /\ last.op = "set_properties_generic"
    /\ last.props = <<Pair("name", Str("a")), Pair("level", Int32(1))>>
    /\ last.res.err = "ok"
    /\ fields.name.s = "a"
    /\ fields.level.n = 1
    /\ handlers # << >>
    /\ WrittenNames(events) = <<"name", "level">>

\* C29 witness: set_property_generic refused a value above the range of
\* "level", which had been written before and kept its value.
C29_WitnessSingle ==
    /\ last.op = "set_generic"
    /\ last.props = <<Pair("level", Int32(2))>>
    /\ last.res.err = "ValidationFailed"
    /\ fields.level.n = 1
    /\ events = << >>

=============================================================================
